---- MODULE Spec2Model ----
(***************************************************************************)
(* Model of the react-native-ai-debugger bridge state: the bounded log     *)
(* buffer (core/logs.ts), the network request table (core/network.ts) and  *)
(* the process-wide connection state (core/state.ts: connectedApps,        *)
(* pendingExecutions, the CDP message id counter).                         *)
(***************************************************************************)
EXTENDS Integers, Sequences, FiniteSets, TLC

(***************************************************************************)
(* Bounds of the model.                                                    *)
(***************************************************************************)
\* largest LogBuffer capacity explored (constructor argument maxSize)
MaxLogCap == 3
\* adds explored since the last clear
MaxAdds == 4
\* largest count argument passed to LogBuffer.get
MaxCount == 2
\* largest NetworkBuffer capacity explored
MaxNetCap == 2
\* call ids handed out before the model stops issuing calls
MaxIds == 6
\* console events received over all sessions
MaxEvents == 1

\* console frames a socket delivers
MaxFrames == 3

\* descriptors one endpoint returns
MaxDevices == 3

\* the maximum depth a rendering is asked for
MaxDepth == 2

\* property-fetch calls after which a rendering is cut off
MaxFetches == 16

\* startDebugHttpServer calls explored
MaxStarts == 2

\* initializations of the text recognizer explored
MaxInits == 3

\* terminateOCRWorker calls in progress at a time
MaxClosing == 2

(***************************************************************************)
(* Values.  A message is a sequence of characters, so that                 *)
(* String.prototype.includes is a real substring test.                     *)
(***************************************************************************)
Messages == { <<"a">>, <<"b">>, <<"a", "B">> }

Texts == { <<>>, <<"a">>, <<"b">>, <<"b", "a">> }

\* the texts passed to LogBuffer.search
SearchTexts == { <<>>, <<"a">>, <<"b">>, <<"B">> }

Levels == { "log", "error" }

LevelArgs == Levels \cup { "all", "" }

\* the console entries explored: every message, both levels
LogEntries ==
    { [message |-> <<"a">>, level |-> "log"],
      [message |-> <<"b">>, level |-> "error"],
      [message |-> <<"a", "B">>, level |-> "log"] }

ReqIds == { "", "r1", "r2", "r3" }

Methods == { "GET", "POST" }

Urls == { "u1", "u2" }

\* response status; -1: the optional field is absent
Statuses == { -1, 200 }

\* timing.duration in ms; -1: the optional field is absent
Durations == { -1, 0, 5 }

\* the durations the loading-finished events carry
EventDurations == { 5 }

\* error text; "none": the optional field is absent
Errors == { "none", "failed" }

\* timestamp.getTime() of a record
Timestamps == { 1, 2 }

NetworkRequests ==
    [requestId : ReqIds, method : Methods, url : Urls, status : Statuses,
     duration : Durations, error : Errors, completed : BOOLEAN, timestamp : Timestamps]

\* the request ids the network events carry
EventIds == { "", "r1", "r2" }

\* the URL and method of the requests the events announce
Origins == { <<"u1", "GET">>, <<"u2", "POST">> }

\* the records passed to NetworkBuffer.set by direct calls: open or completed
SetArgs(id) ==
    { r \in NetworkRequests :
        /\ r.requestId = id
        /\ r.method = "GET"
        /\ r.url = "u1"
        /\ r.timestamp = 1
        /\ r.status = -1
        /\ r.duration = -1
        /\ r.error = "none" }

\* the application instances that discovery can return
Apps == { "A", "B" }

\* WebSocket.readyState
ReadyStates == { "CONNECTING", "OPEN", "CLOSING", "CLOSED" }

\* the domains enabled on attach, in the order of the sequential enable calls
Domains == << "Log", "Network", "Runtime" >>

\* what a response frame can carry: a result, a result with an exception
\* payload, or a protocol error
Payloads == { "result", "exception", "error" }

VARIABLES
    logs,          \* LogBuffer.logs
    logMaxSize,    \* LogBuffer.maxSize
    appended,      \* history: every entry passed to add since construction or the last clear
    held,          \* a list a caller got from a LogBuffer query and kept: as returned, and as it reads now
    lastGet,       \* the latest LogBuffer.get call on the current buffer contents: arguments and returned list
    lastSearch,    \* the latest LogBuffer.search / search_logs call on the current buffer contents
    requests,      \* NetworkBuffer.requests (Map requestId -> NetworkRequest)
    order,         \* NetworkBuffer.order
    netMaxSize,    \* NetworkBuffer.maxSize
    insOrder,      \* history: the ids present in the table, in the order of their first insertion
    everCompleted, \* history: ids whose stored record has had completed = true since it was inserted
    stage,         \* history: per id, how far the stored record is on the path initiated ->
                   \* responded -> finished, with the URL and method of its creation
    lastSet,       \* history: the id and completed flag passed by the latest direct set call
    lastDropped,   \* id of the update event dropped by the latest network event ("none": not dropped)
    connectedApps,       \* keys of the connectedApps map (one ConnectedApp per key)
    wsState,             \* readyState of the WebSocket of each instance (CLOSED: no socket)
    attachStep,          \* number of domains enabled so far by the attach of each instance
    pendingExecutions,   \* Map id -> PendingExecution (owner: session of the call, kind: its purpose)
    messageId,           \* _messageId
    remoteOpen,          \* per instance: request ids the remote side received and has not answered
    doneCount,           \* history: per call id, how many times its handle was completed
    lastDone,            \* the latest completion: the call ids completed, the cause, and for an
                         \* evaluation the ExecutionResult and the execute_in_app response
    lastUnmatched,       \* id of the latest response frame dropped as unmatched (0: none)
    inbox,               \* per instance: the frames its socket delivered that the message handler
                         \* has not run for yet, in arrival order
    arrived,             \* history: the console entries the sockets delivered, in arrival order
    devices,             \* the descriptor list fetched from one endpoint
    selected,            \* the latest result of the instance selector on that list
    remote,              \* the remote side's objects: handle -> the values of its properties
    portState,           \* what is behind each port of the scan range: nothing, a server with a
                         \* malformed or an empty metadata response, or a server with descriptors
    scanResponse,        \* the latest scan_metro response
    lastStats,           \* the latest result of getNetworkStats
    fate,                \* what became of each request id under the tracked calls: never stored, stored, evicted, cleared
    lastQuery,           \* the latest result of LogBuffer.getAll / size or of a NetworkBuffer query
    activeDebugServerPort, \* httpServer.ts activeDebugServerPort (0: null)
    busyPorts,           \* the ports on which a listen fails: held by another process or by a server of this one
    httpStart,           \* the startDebugHttpServer call in progress or finished last: its start
                         \* port, the attempts made with their outcome, and its result (0: null)
    startResults,        \* history: the results of the finished startDebugHttpServer calls, in order
    easyOCRInstance,     \* ocr.ts easyOCRInstance (0: null, n: the instance made by initialization n)
    easyOCRInitPromise,  \* ocr.ts easyOCRInitPromise (0: null, n: the promise of initialization n)
    initState,           \* per initialization: not started, running, resolved or rejected
    closing,             \* the terminateOCRWorker calls waiting for close() to settle
    lastCall,            \* what the latest getEasyOCR call returned: the instance, the cached promise or a new one
    render               \* the rendering in progress: values still to render with their depth,
                         \* the text so far, the property-fetch calls issued, the depth bound

logVars == <<logs, logMaxSize, appended, lastGet, lastSearch, held>>

netVars == <<requests, order, netMaxSize, insOrder, everCompleted, stage, lastSet, lastDropped>>

sessVars == <<connectedApps, wsState, attachStep, pendingExecutions, messageId,
              remoteOpen, doneCount, lastDone, lastUnmatched>>

frameVars == <<inbox, arrived>>

\* the variables outside the buffers and the sessions
\* the inputs and results of the discovery and presentation operations
selVars == <<devices, selected>>

renderVars == <<remote, render>>

scanVars == <<portState, scanResponse>>

statsVars == <<lastStats>>

queryVars == <<lastQuery>>

histVars == <<fate>>

httpVars == <<activeDebugServerPort, busyPorts, httpStart, startResults>>

ocrVars == <<easyOCRInstance, easyOCRInitPromise, initState, closing, lastCall>>

toolVars == <<selVars, renderVars, scanVars, statsVars, queryVars, histVars, httpVars, ocrVars>>

\* everything but the variables of the selector
notSel == <<logVars, netVars, sessVars, frameVars, renderVars, scanVars, statsVars, queryVars, histVars,
          httpVars, ocrVars>>

\* everything but the variables of the renderer
notRender == <<logVars, netVars, sessVars, frameVars, selVars, scanVars, statsVars, queryVars, histVars,
          httpVars, ocrVars>>

\* everything but the variables of the scan
notScan == <<logVars, netVars, sessVars, frameVars, selVars, renderVars, statsVars, queryVars, histVars,
          httpVars, ocrVars>>

\* everything but the network table and the statistics
notStats == <<logVars, sessVars, frameVars, selVars, renderVars, scanVars, queryVars, histVars,
          httpVars, ocrVars>>

\* everything but the buffers and the query results
notQuery == <<sessVars, frameVars, selVars, renderVars, scanVars, statsVars, histVars,
          httpVars, ocrVars>>

\* everything but the buffers, the query results and the fates of the ids
notTracked == <<sessVars, frameVars, selVars, renderVars, scanVars, statsVars,
               httpVars, ocrVars>>

\* everything but the status server
notHttp == <<logVars, netVars, sessVars, frameVars, selVars, renderVars, scanVars, statsVars,
            queryVars, histVars, ocrVars>>

\* everything but the text recognizer
notOcr == <<logVars, netVars, sessVars, frameVars, selVars, renderVars, scanVars, statsVars,
           queryVars, histVars, httpVars>>

extVars == <<frameVars, toolVars>>

vars == <<logs, logMaxSize, appended, lastGet, lastSearch, held, requests, order, netMaxSize,
          insOrder, everCompleted, stage, lastSet, lastDropped,
          connectedApps, wsState, attachStep, pendingExecutions, messageId,
          remoteOpen, doneCount, lastDone, lastUnmatched, inbox, arrived,
          devices, selected, remote, portState, scanResponse, lastStats, lastQuery, fate, render,
          activeDebugServerPort, busyPorts, httpStart, startResults,
          easyOCRInstance, easyOCRInitPromise, initState, closing, lastCall>>

(***************************************************************************)
(* JavaScript helpers.                                                     *)
(***************************************************************************)
\* truthiness of a string: only the empty string is falsy
TruthyStr(s) == s # ""

\* truthiness of a character sequence standing for a string
TruthySeq(s) == s # <<>>

\* String.prototype.includes
Includes(message, text) ==
    \E i \in 0..(Len(message) - Len(text)) :
        SubSeq(message, i + 1, i + Len(text)) = text

\* Array.prototype.slice(start) with 0 <= start
SliceFrom(s, start) == SubSeq(s, start + 1, Len(s))

\* Array.prototype.slice(0, n) with n >= 0
SliceTo(s, n) == SubSeq(s, 1, IF n < Len(s) THEN n ELSE Len(s))

\* Array.prototype.filter by level
RECURSIVE FilterLevel(_, _)
FilterLevel(s, level) ==
    IF s = <<>> THEN <<>>
    ELSE IF Head(s).level = level
         THEN <<Head(s)>> \o FilterLevel(Tail(s), level)
         ELSE FilterLevel(Tail(s), level)

(***************************************************************************)
(* LogBuffer                                                               *)
(***************************************************************************)
\* a forward scan: index of the FIRST entry containing text, or -1
ScanBack_first(s, text, i) ==
    IF \E j \in 0..i : Includes(s[j + 1].message, text)
    THEN CHOOSE j \in 0..i : /\ Includes(s[j + 1].message, text)
                             /\ \A k \in 0..(j - 1) : ~Includes(s[k + 1].message, text)
    ELSE -1

\* the backward scan of get: index (0-based) of the last entry containing text, or -1
RECURSIVE ScanBack(_, _, _)
ScanBack(s, text, i) ==
    IF i < 0 THEN -1
    ELSE IF Includes(s[i + 1].message, text) THEN i
    ELSE ScanBack(s, text, i - 1)

StartIndex(s, text) == ScanBack(s, text, Len(s) - 1)

\* a startFromText step that yields nothing when no entry matches
AfterStart_emptyOnMiss(s, text) ==
    IF TruthySeq(text)
    THEN IF StartIndex(s, text) # -1 THEN SliceFrom(s, StartIndex(s, text)) ELSE <<>>
    ELSE s

\* the list after the startFromText step of get
AfterStart(s, text) ==
    IF TruthySeq(text)
    THEN IF StartIndex(s, text) # -1 THEN SliceFrom(s, StartIndex(s, text)) ELSE s
    ELSE s

\* the list after the level step of get
AfterLevel(s, level) ==
    IF TruthyStr(level) /\ level # "all" THEN FilterLevel(s, level) ELSE s

\* the list after the count step of get
AfterCount(s, count) ==
    IF count # 0 /\ count > 0 THEN SliceTo(s, count) ELSE s

\* a get that caps the list before it filters by level
LogGet_countFirst(s, count, level, text) ==
    AfterLevel(AfterCount(AfterStart(s, text), count), level)

\* LogBuffer.get(count, level, startFromText); an omitted argument behaves as
\* the falsy value of its type (0, "", the empty string)
LogGet(s, count, level, text) ==
    AfterCount(AfterLevel(AfterStart(s, text), level), count)

\* LogBuffer.getAll
LogGetAll == logs

NoGet == [called |-> FALSE, count |-> 0, level |-> "", text |-> <<>>, result |-> <<>>]

\* String.prototype.toLowerCase on one character of the alphabet
ToLowerChar(c) == IF c = "A" THEN "a" ELSE IF c = "B" THEN "b" ELSE c

\* String.prototype.toLowerCase
ToLower(str) == [i \in 1..Len(str) |-> ToLowerChar(str[i])]

\* a search predicate that compares the raw strings
SearchMatches_caseSensitive(message, text) == Includes(message, text)

\* the predicate of search: message.toLowerCase().includes(text.toLowerCase())
SearchMatches(message, text) == Includes(ToLower(message), ToLower(text))

\* Array.prototype.filter with the predicate of search
RECURSIVE FilterSearch(_, _)
FilterSearch(s, text) ==
    IF s = <<>> THEN <<>>
    ELSE IF SearchMatches(Head(s).message, text)
         THEN <<Head(s)>> \o FilterSearch(Tail(s), text)
         ELSE FilterSearch(Tail(s), text)

\* LogBuffer.search(text, maxResults); an omitted maxResults behaves as 0
LogSearch(s, text, maxResults) ==
    IF maxResults # 0 /\ maxResults > 0
    THEN SliceTo(FilterSearch(s, text), maxResults)
    ELSE FilterSearch(s, text)

\* the default of maxResults in searchLogs
DefaultMaxResults == 50

\* "const { maxResults = 50 } = options": the property read off the options
\* value; a number has no such property
DestructureMaxResults(options) ==
    IF options.kind = "object" /\ options.given THEN options.maxResults
    ELSE DefaultMaxResults

\* searchLogs(logBuffer, text, options): the logs of its result
SearchLogs(s, text, options) == LogSearch(s, text, DestructureMaxResults(options))

\* the search_logs handler: searchLogs(logBuffer, text, maxResults), the
\* number passed in the place of the options object
SearchLogsTool(s, text, maxResults) ==
    SearchLogs(s, text, [kind |-> "number", given |-> FALSE, maxResults |-> maxResults])

NoSearch == [called |-> FALSE, via |-> "none", text |-> <<>>, maxResults |-> 0, result |-> <<>>]

\* add that drops the newest entry (pop) instead of the oldest (shift)
PushShift_pop(s, entry, maxSize) ==
    IF Len(Append(s, entry)) > maxSize THEN s ELSE Append(s, entry)

\* the array after LogBuffer.add
PushShift(s, entry, maxSize) ==
    IF Len(Append(s, entry)) > maxSize THEN Tail(Append(s, entry)) ELSE Append(s, entry)

\* no list is kept
NoHeld == [via |-> "none", alias |-> FALSE, returned |-> <<>>, now |-> <<>>]

\* push and shift work on the array in place: a kept list that is the array itself
\* reads as the new contents
LogAdd(entry) ==
    /\ Len(appended) < MaxAdds
    /\ logs' = PushShift(logs, entry, logMaxSize)
    /\ held' = IF held.alias THEN [held EXCEPT !.now = logs'] ELSE held
    /\ appended' = Append(appended, entry)
    /\ lastGet' = NoGet
    /\ lastSearch' = NoSearch
    /\ UNCHANGED <<logMaxSize, netVars>>

\* LogBuffer.add called directly
LogAddCall(entry) ==
    /\ LogAdd(entry)
    /\ UNCHANGED <<sessVars, extVars>>

\* "this.logs = []": a kept list that was the array stays as it is
LogBufferClear ==
    /\ logs' = <<>>
    /\ held' = [held EXCEPT !.alias = FALSE]
    /\ appended' = <<>>
    /\ lastGet' = NoGet
    /\ lastSearch' = NoSearch
    /\ UNCHANGED <<logMaxSize, netVars>>

\* LogBuffer.clear called directly
LogClear ==
    /\ LogBufferClear
    /\ UNCHANGED <<sessVars, extVars>>

LogGetCall(count, level, text) ==
    /\ lastGet' = [called |-> TRUE, count |-> count, level |-> level, text |-> text,
                   result |-> LogGet(logs, count, level, text)]
    /\ lastSearch' = NoSearch
    /\ UNCHANGED <<logs, logMaxSize, appended, held, netVars, sessVars, extVars>>

LogSearchCall(text, maxResults) ==
    /\ lastSearch' = [called |-> TRUE, via |-> "search", text |-> text,
                      maxResults |-> maxResults,
                      result |-> LogSearch(logs, text, maxResults)]
    /\ lastGet' = NoGet
    /\ UNCHANGED <<logs, logMaxSize, appended, held, netVars, sessVars, extVars>>

\* the search_logs tool called with text and maxResults
SearchLogsCall(text, maxResults) ==
    /\ lastSearch' = [called |-> TRUE, via |-> "search_logs", text |-> text,
                      maxResults |-> maxResults,
                      result |-> SearchLogsTool(logs, text, maxResults)]
    /\ lastGet' = NoGet
    /\ UNCHANGED <<logs, logMaxSize, appended, held, netVars, sessVars, extVars>>

(***************************************************************************)
(* NetworkBuffer                                                           *)
(***************************************************************************)
\* Map.delete
MapDelete(m, k) == [x \in (DOMAIN m) \ {k} |-> m[x]]

\* a Map.set that keeps a completed flag once it is true
MapSet_keepCompleted(m, k, v) ==
    [x \in (DOMAIN m) \cup {k} |->
        IF x = k
        THEN IF k \in DOMAIN m /\ m[k].completed THEN [v EXCEPT !.completed = TRUE] ELSE v
        ELSE m[x]]

\* Map.set
MapSet(m, k, v) == [x \in (DOMAIN m) \cup {k} |-> IF x = k THEN v ELSE m[x]]

\* NetworkBuffer.size
NetSize == Cardinality(DOMAIN requests)

\* the value of a missing Map entry
Undefined == [undefined |-> TRUE]

\* a lookup that hands out a new record for an unknown id
NetGet_orCreate(m, requestId) ==
    IF requestId \in DOMAIN m THEN m[requestId]
    ELSE [requestId |-> requestId, method |-> "GET", url |-> "u1", status |-> -1,
          duration |-> -1, error |-> "none", completed |-> FALSE, timestamp |-> 1]

\* NetworkBuffer.get
NetGet(m, requestId) == IF requestId \in DOMAIN m THEN m[requestId] ELSE Undefined

\* no direct set call yet
NoSet == [id |-> "none", completed |-> FALSE]

\* the stage history of an id without a stored record
NoStage == [phase |-> "none", url |-> "none", method |-> "none"]

\* the guarded delete of the evicted id: "if (oldestId) this.requests.delete(oldestId)"
EvictOldest(m, oldestId) == IF TruthyStr(oldestId) THEN MapDelete(m, oldestId) ELSE m

\* a set that inserts new ids only and leaves the record of a known id as it is
NetSet_insertOnly(requestId, request) ==
    /\ IF requestId \notin DOMAIN requests
       THEN IF Len(Append(order, requestId)) > netMaxSize
            THEN /\ order' = Tail(Append(order, requestId))
                 /\ requests' = MapSet(EvictOldest(requests, Head(Append(order, requestId))),
                                       requestId, request)
            ELSE /\ order' = Append(order, requestId)
                 /\ requests' = MapSet(requests, requestId, request)
       ELSE /\ order' = order
            /\ requests' = requests
    /\ insOrder' =
           LET kept == SelectSeq(insOrder, LAMBDA x : x \in DOMAIN requests' /\ x # requestId)
           IN  IF requestId \in DOMAIN requests THEN SelectSeq(insOrder, LAMBDA x : x \in DOMAIN requests')
               ELSE Append(kept, requestId)
    /\ everCompleted' =
           { x \in DOMAIN requests' :
               \/ requests'[x].completed
               \/ x \in everCompleted /\ x \in DOMAIN requests }
    /\ UNCHANGED <<netMaxSize, logVars>>

\* NetworkBuffer.set, with the histories of the table
NetSet(requestId, request) ==
    /\ IF requestId \notin DOMAIN requests
       THEN IF Len(Append(order, requestId)) > netMaxSize
            THEN /\ order' = Tail(Append(order, requestId))
                 /\ requests' = MapSet(EvictOldest(requests, Head(Append(order, requestId))),
                                       requestId, request)
            ELSE /\ order' = Append(order, requestId)
                 /\ requests' = MapSet(requests, requestId, request)
       ELSE /\ order' = order
            /\ requests' = MapSet(requests, requestId, request)
    /\ insOrder' =
           LET kept == SelectSeq(insOrder, LAMBDA x : x \in DOMAIN requests' /\ x # requestId)
           IN  IF requestId \in DOMAIN requests THEN SelectSeq(insOrder, LAMBDA x : x \in DOMAIN requests')
               ELSE Append(kept, requestId)
    /\ everCompleted' =
           { x \in DOMAIN requests' :
               \/ requests'[x].completed
               \/ x \in everCompleted /\ x \in DOMAIN requests }
    /\ UNCHANGED <<netMaxSize, logVars>>

\* a clear that empties the table and leaves the eviction order as it is
NetBufferClear_keepsOrder ==
    /\ requests' = <<>>
    /\ order' = order
    /\ insOrder' = <<>>
    /\ everCompleted' = {}
    /\ stage' = [x \in ReqIds |-> NoStage]
    /\ lastSet' = NoSet
    /\ lastDropped' = "none"
    /\ UNCHANGED <<netMaxSize, logVars>>

\* NetworkBuffer.clear: "this.requests.clear(); this.order = []"
NetBufferClear ==
    /\ requests' = <<>>
    /\ order' = <<>>
    /\ insOrder' = <<>>
    /\ everCompleted' = {}
    /\ stage' = [x \in ReqIds |-> NoStage]
    /\ lastSet' = NoSet
    /\ lastDropped' = "none"
    /\ UNCHANGED <<netMaxSize, logVars>>

\* NetworkBuffer.clear called directly
NetClear ==
    /\ NetBufferClear
    /\ UNCHANGED <<sessVars, extVars>>

\* NetworkBuffer.set called directly
NetSetCall(requestId, request) ==
    /\ NetSet(requestId, request)
    /\ lastSet' = [id |-> requestId, completed |-> request.completed]
    /\ UNCHANGED <<stage, lastDropped, sessVars, extVars>>

\* the stage history after an event on id: records that left the table start over
StageAfter(id, new) ==
    [x \in ReqIds |->
        IF x = id THEN new
        ELSE IF x \in DOMAIN requests' THEN stage[x] ELSE NoStage]

\* request-initiated event: the record is created
RequestWillBeSent(id, url, method) ==
    /\ NetSet(id, [requestId |-> id, method |-> method, url |-> url, status |-> -1,
                   duration |-> -1, error |-> "none", completed |-> FALSE, timestamp |-> 1])
    /\ stage' = StageAfter(id, [phase |-> "initiated", url |-> url, method |-> method])
    /\ lastDropped' = "none"
    /\ UNCHANGED <<lastSet, sessVars, extVars>>

\* an update event for an id the table does not hold: dropped
DropEvent(id) ==
    /\ lastDropped' = id
    /\ UNCHANGED <<requests, order, netMaxSize, insOrder, everCompleted, stage, lastSet,
                   logVars, sessVars, extVars>>

\* response-received event: status of the record stored under id
ResponseReceived(id, status) ==
    LET r == NetGet(requests, id) IN
    IF r = Undefined THEN DropEvent(id)
    ELSE /\ NetSet(id, [r EXCEPT !.status = status])
         /\ stage' = StageAfter(id, IF stage[id].phase = "initiated"
                                    THEN [stage[id] EXCEPT !.phase = "responded"]
                                    ELSE [stage[id] EXCEPT !.phase = "other"])
         /\ lastDropped' = "none"
         /\ UNCHANGED <<lastSet, sessVars, extVars>>

\* loading-finished event: duration and completion of the record stored under id
LoadingFinished(id, duration) ==
    LET r == NetGet(requests, id) IN
    IF r = Undefined THEN DropEvent(id)
    ELSE /\ NetSet(id, [r EXCEPT !.duration = duration, !.completed = TRUE])
         /\ stage' = StageAfter(id, IF stage[id].phase = "responded"
                                    THEN [stage[id] EXCEPT !.phase = "finished"]
                                    ELSE [stage[id] EXCEPT !.phase = "other"])
         /\ lastDropped' = "none"
         /\ UNCHANGED <<lastSet, sessVars, extVars>>

\* loading-failed event: error text and completion of the record stored under id
LoadingFailed(id) ==
    LET r == NetGet(requests, id) IN
    IF r = Undefined THEN DropEvent(id)
    ELSE /\ NetSet(id, [r EXCEPT !.error = "failed", !.completed = TRUE])
         /\ stage' = StageAfter(id, [stage[id] EXCEPT !.phase = "other"])
         /\ lastDropped' = "none"
         /\ UNCHANGED <<lastSet, sessVars, extVars>>

(***************************************************************************)
(* Connection state (core/state.ts) and the session operations working on  *)
(* it: attach, call, response, timeout, socket close, events.              *)
(***************************************************************************)
NumDomains == Len(Domains)

\* getNextMessageId with the counter left unchanged (a post-increment lost)
NextCounter_stuck(m) == m

\* the counter after getNextMessageId: "return _messageId++"
NextCounter(m) == m + 1

\* the value getNextMessageId returns
NextMessageId(m) == m

\* the ExecutionResult a completion cause is turned into
Outcome(cause) ==
    IF cause = "value"
    THEN [success |-> TRUE, result |-> "text", error |-> "none"]
    ELSE [success |-> FALSE, result |-> "none", error |-> cause]

\* execute_in_app with the test on result.success inverted
ToolResponse_swapped(result) ==
    IF result.success
    THEN [isError |-> TRUE, text |-> <<"Error: ", result.error>>]
    ELSE [isError |-> FALSE,
          text |-> <<IF result.result = "none" THEN "undefined" ELSE result.result>>]

\* the response execute_in_app builds from the ExecutionResult ("none": the
\* optional field is absent)
ToolResponse(result) ==
    IF ~result.success
    THEN [isError |-> TRUE, text |-> <<"Error: ", result.error>>]
    ELSE [isError |-> FALSE,
          text |-> <<IF result.result = "none" THEN "undefined" ELSE result.result>>]

\* the completion of the calls ids by cause; for an evaluation, with what
\* executeInApp returns and what execute_in_app answers
Completion(ids, kind, cause) ==
    [ids |-> ids, kind |-> kind, cause |-> cause,
     result |-> IF kind = "evaluate" THEN Outcome(cause) ELSE Outcome("none"),
     response |-> IF kind = "evaluate" THEN ToolResponse(Outcome(cause))
                  ELSE ToolResponse(Outcome("none"))]

NoDone == Completion({}, "none", "none")

\* get_apps / renderApps: the connected flag shown for a registry entry
IsConnected(a) == wsState[a] = "OPEN"

\* ids of the calls pending on the session of instance a
PendingOf(a) == { id \in DOMAIN pendingExecutions : pendingExecutions[id].owner = a }

\* call: allocate the next id, record the PendingCall with its timer, send the envelope
IssueCall(a, kind) ==
    /\ pendingExecutions' = MapSet(pendingExecutions, NextMessageId(messageId),
                                   [owner |-> a, kind |-> kind])
    /\ remoteOpen' = [remoteOpen EXCEPT ![a] = @ \cup {NextMessageId(messageId)}]
    /\ messageId' = NextCounter(messageId)

\* attach: open a socket to the instance
Attach(a) ==
    /\ a \notin connectedApps
    /\ wsState[a] = "CLOSED"
    /\ wsState' = [wsState EXCEPT ![a] = "CONNECTING"]
    /\ UNCHANGED <<connectedApps, attachStep, pendingExecutions, messageId, remoteOpen,
                   doneCount, lastDone, lastUnmatched, logVars, netVars, extVars>>

\* the socket opened: the first enable call is issued
SocketOpen(a) ==
    /\ wsState[a] = "CONNECTING"
    /\ messageId <= MaxIds
    /\ wsState' = [wsState EXCEPT ![a] = "OPEN"]
    /\ IssueCall(a, "enable")
    /\ UNCHANGED <<connectedApps, attachStep, doneCount, lastDone, lastUnmatched, logVars, netVars, extVars>>

\* evaluate with no attached instance: an error outcome, no call is issued
EvaluateNoApp ==
    /\ connectedApps = {}
    /\ lastDone' = Completion({}, "evaluate", "no apps connected")
    /\ UNCHANGED <<connectedApps, wsState, attachStep, pendingExecutions, messageId,
                   remoteOpen, doneCount, lastUnmatched, logVars, netVars, extVars>>

\* evaluate on an attached instance whose socket cannot send: a transport failure outcome
EvaluateNotOpen(a) ==
    /\ a \in connectedApps
    /\ wsState[a] # "OPEN"
    /\ lastDone' = Completion({}, "evaluate", "transport failure")
    /\ UNCHANGED <<connectedApps, wsState, attachStep, pendingExecutions, messageId,
                   remoteOpen, doneCount, lastUnmatched, logVars, netVars, extVars>>

\* evaluate on an attached instance: a call on its session
Evaluate(a) ==
    /\ a \in connectedApps
    /\ wsState[a] = "OPEN"
    /\ messageId <= MaxIds
    /\ IssueCall(a, "evaluate")
    /\ UNCHANGED <<connectedApps, wsState, attachStep, doneCount, lastDone, lastUnmatched,
                   logVars, netVars, extVars>>

\* the completion cause of a response payload
CauseOf(payload) ==
    IF payload = "result" THEN "value"
    ELSE IF payload = "exception" THEN "exception"
    ELSE "protocol error"

\* an attach that takes every answer to an enable call for a success
EnableFailed_never(payload) == FALSE

\* an enable call failed: its response carries no result
EnableFailed(payload) == payload # "result"

\* the message handler run for a response frame {id, result|error} of instance a
HandleResponse(a, id, payload) ==
    /\ wsState[a] = "OPEN"
    /\ id \in remoteOpen[a]
    /\ IF id \in DOMAIN pendingExecutions
       THEN LET p == pendingExecutions[id] IN
            /\ doneCount' = [doneCount EXCEPT ![id] = @ + 1]
            /\ lastDone' = Completion({id}, p.kind, CauseOf(payload))
            /\ lastUnmatched' = lastUnmatched
            /\ IF p.kind = "evaluate"
               THEN /\ pendingExecutions' = MapDelete(pendingExecutions, id)
                    /\ remoteOpen' = [remoteOpen EXCEPT ![a] = @ \ {id}]
                    /\ UNCHANGED <<connectedApps, wsState, attachStep, messageId>>
               ELSE IF EnableFailed(payload)
               THEN \* an enable call failed: the attach is aborted, the socket closed
                    /\ pendingExecutions' = MapDelete(pendingExecutions, id)
                    /\ remoteOpen' = [remoteOpen EXCEPT ![a] = @ \ {id}]
                    /\ wsState' = [wsState EXCEPT ![p.owner] = "CLOSING"]
                    /\ attachStep' = [attachStep EXCEPT ![p.owner] = 0]
                    /\ UNCHANGED <<connectedApps, messageId>>
               ELSE IF attachStep[p.owner] + 1 = NumDomains
               THEN \* the last domain is enabled: the attach succeeded
                    /\ pendingExecutions' = MapDelete(pendingExecutions, id)
                    /\ remoteOpen' = [remoteOpen EXCEPT ![a] = @ \ {id}]
                    /\ attachStep' = [attachStep EXCEPT ![p.owner] = NumDomains]
                    /\ connectedApps' = connectedApps \cup {p.owner}
                    /\ UNCHANGED <<wsState, messageId>>
               ELSE \* the next enable call
                    /\ messageId <= MaxIds
                    /\ attachStep' = [attachStep EXCEPT ![p.owner] = @ + 1]
                    /\ pendingExecutions' =
                           MapSet(MapDelete(pendingExecutions, id), NextMessageId(messageId),
                                  [owner |-> p.owner, kind |-> "enable"])
                    /\ remoteOpen' = [remoteOpen EXCEPT
                                         ![a] = (@ \ {id}) \cup {NextMessageId(messageId)}]
                    /\ messageId' = NextCounter(messageId)
                    /\ UNCHANGED <<connectedApps, wsState>>
       ELSE \* no pending entry: the frame is dropped as unmatched
            /\ lastUnmatched' = id
            /\ remoteOpen' = [remoteOpen EXCEPT ![a] = @ \ {id}]
            /\ UNCHANGED <<connectedApps, wsState, attachStep, pendingExecutions, messageId,
                           doneCount, lastDone>>
    /\ UNCHANGED <<logVars, netVars>>

\* a response frame {id, result|error} read from the socket of instance a
Response(a, id, payload) ==
    /\ HandleResponse(a, id, payload)
    /\ UNCHANGED extVars

\* a timer that is armed for evaluate calls only
Timeout_evaluateOnly(id) ==
    /\ id \in DOMAIN pendingExecutions
    /\ pendingExecutions[id].kind = "evaluate"
    /\ pendingExecutions' = MapDelete(pendingExecutions, id)
    /\ doneCount' = [doneCount EXCEPT ![id] = @ + 1]
    /\ lastDone' = Completion({id}, "evaluate", "timeout")
    /\ UNCHANGED <<wsState, attachStep, connectedApps, messageId, remoteOpen,
                   lastUnmatched, logVars, netVars, extVars>>

\* the timer of a pending call expired
Timeout(id) ==
    /\ id \in DOMAIN pendingExecutions
    /\ LET p == pendingExecutions[id] IN
       /\ pendingExecutions' = MapDelete(pendingExecutions, id)
       /\ doneCount' = [doneCount EXCEPT ![id] = @ + 1]
       /\ lastDone' = Completion({id}, p.kind, "timeout")
       /\ IF p.kind = "evaluate"
          THEN UNCHANGED <<wsState, attachStep>>
          ELSE /\ wsState' = [wsState EXCEPT ![p.owner] = IF @ = "OPEN" THEN "CLOSING" ELSE @]
               /\ attachStep' = [attachStep EXCEPT ![p.owner] = 0]
    /\ UNCHANGED <<connectedApps, messageId, remoteOpen, lastUnmatched, logVars, netVars, extVars>>

\* the remote side started closing the socket (close frame received)
SocketClosing(a) ==
    /\ wsState[a] = "OPEN"
    /\ wsState' = [wsState EXCEPT ![a] = "CLOSING"]
    /\ UNCHANGED <<connectedApps, attachStep, pendingExecutions, messageId, remoteOpen,
                   doneCount, lastDone, lastUnmatched, logVars, netVars, extVars>>

\* a close handler that neither rejects the pending calls nor drops the
\* registry entry
SocketClosed_silent(a) ==
    /\ wsState[a] \in {"CONNECTING", "OPEN", "CLOSING"}
    /\ wsState' = [wsState EXCEPT ![a] = "CLOSED"]
    /\ attachStep' = [attachStep EXCEPT ![a] = 0]
    /\ remoteOpen' = [remoteOpen EXCEPT ![a] = {}]
    /\ UNCHANGED <<pendingExecutions, doneCount, lastDone, connectedApps, messageId,
                   lastUnmatched, logVars, netVars, extVars>>

\* the socket closed: the close handler rejects the pending calls of the
\* session and drops the instance from the registry
SocketClosed(a) ==
    /\ wsState[a] \in {"CONNECTING", "OPEN", "CLOSING"}
    /\ wsState' = [wsState EXCEPT ![a] = "CLOSED"]
    /\ pendingExecutions' =
           [id \in (DOMAIN pendingExecutions) \ PendingOf(a) |-> pendingExecutions[id]]
    /\ doneCount' = [id \in DOMAIN doneCount |->
                        IF id \in PendingOf(a) THEN doneCount[id] + 1 ELSE doneCount[id]]
    /\ lastDone' = IF PendingOf(a) = {} THEN lastDone
                   ELSE Completion(PendingOf(a),
                                   IF \E id \in PendingOf(a) : pendingExecutions[id].kind = "evaluate"
                                   THEN "evaluate" ELSE "enable",
                                   "connection closed")
    /\ connectedApps' = connectedApps \ {a}
    /\ attachStep' = [attachStep EXCEPT ![a] = 0]
    /\ remoteOpen' = [remoteOpen EXCEPT ![a] = {}]
    /\ UNCHANGED <<messageId, lastUnmatched, logVars, netVars, extVars>>

\* the console entry and the request an instance reports
EntryOf(a) ==
    IF a = "A" THEN [message |-> <<"a">>, level |-> "log"]
    ELSE [message |-> <<"b">>, level |-> "error"]

RequestOf(a) ==
    IF a = "A" THEN [requestId |-> "r1", url |-> "u1", method |-> "GET"]
    ELSE [requestId |-> "r2", url |-> "u2", method |-> "POST"]

\* a console event frame read from the socket of an attached instance
LogEvent(a) ==
    /\ wsState[a] = "OPEN"
    /\ a \in connectedApps
    /\ Len(appended) < MaxEvents
    /\ LogAdd(EntryOf(a))
    /\ UNCHANGED <<sessVars, extVars>>

\* a request-initiated event frame read from the socket of an attached instance
NetEvent(a) ==
    /\ wsState[a] = "OPEN"
    /\ a \in connectedApps
    /\ RequestOf(a).requestId \notin DOMAIN requests
    /\ RequestWillBeSent(RequestOf(a).requestId, RequestOf(a).url, RequestOf(a).method)

(***************************************************************************)
(* Instance selector.                                                      *)
(***************************************************************************)
\* what the kind / title of a descriptor indicates
Indications == { {}, {"bridgeless"}, {"hermes"}, {"experimental"}, {"hermes", "experimental"} }

\* the descriptor at position i of a fetched list
Descriptor(i, tags) == [id |-> i, tags |-> tags]

\* the descriptor lists an endpoint returns
DeviceLists ==
    UNION { { [i \in 1..n |-> Descriptor(i, t[i])] : t \in [1..n -> Indications] } : n \in 0..MaxDevices }

\* no descriptor: the result "none"
NoDevice == Descriptor(0, {})

\* the selector has not run on the list
NotSelected == [ran |-> FALSE, device |-> NoDevice]

\* Array.prototype.find: the first element with the indication, or none
RECURSIVE FindWith(_, _)
FindWith(devs, tag) ==
    IF devs = <<>> THEN NoDevice
    ELSE IF tag \in Head(devs).tags THEN Head(devs)
    ELSE FindWith(Tail(devs), tag)

\* the first element without the indication, or none
RECURSIVE FindWithout(_, _)
FindWithout(devs, tag) ==
    IF devs = <<>> THEN NoDevice
    ELSE IF tag \notin Head(devs).tags THEN Head(devs)
    ELSE FindWithout(Tail(devs), tag)

\* a selector that looks for the Hermes runtime before the bridgeless one
SelectMainDevice_hermesFirst(devs) ==
    IF FindWith(devs, "hermes") # NoDevice THEN FindWith(devs, "hermes")
    ELSE IF FindWith(devs, "bridgeless") # NoDevice THEN FindWith(devs, "bridgeless")
    ELSE FindWithout(devs, "experimental")

\* selectMainDevice: bridgeless, then Hermes, then any non-experimental instance
SelectMainDevice(devs) ==
    IF FindWith(devs, "bridgeless") # NoDevice THEN FindWith(devs, "bridgeless")
    ELSE IF FindWith(devs, "hermes") # NoDevice THEN FindWith(devs, "hermes")
    ELSE FindWithout(devs, "experimental")

\* fetchDevices: the descriptor list of an endpoint is fetched anew
FetchDevices(list) ==
    /\ devices' = list
    /\ selected' = NotSelected
    /\ UNCHANGED notSel

\* scan_metro: "const mainDevice = selectMainDevice(devices)"
SelectCall ==
    /\ selected' = [ran |-> TRUE, device |-> SelectMainDevice(devices)]
    /\ UNCHANGED <<devices, notSel>>

(***************************************************************************)
(* Remote-object renderer.                                                 *)
(***************************************************************************)
\* objectId values
Handles == { "o1", "o2" }

\* a RemoteObject: a scalar carries its value inline, an object carries a handle
RemoteValues == { "scalar" } \cup Handles

\* the property values of one remote object, in property order
PropertyLists ==
    { <<>>, <<"scalar">>, <<"o1">>, <<"o2">>, <<"scalar", "o1">>, <<"o1", "o2">>, <<"o2", "o2">> }

\* the most properties an object of the remote side has
MaxProps == 2

\* the object graphs of the remote side; they may be cyclic
Heaps == [Handles -> PropertyLists]

\* no rendering in progress
NoRender == [todo |-> <<>>, out |-> <<>>, fetches |-> 0, maxDepth |-> 0]

\* a renderer without a depth bound
BeyondDepth_never(depth, maxDepth) == FALSE

\* the depth bound is reached: the value is not fetched
BeyondDepth(depth, maxDepth) == depth >= maxDepth

\* the property values of a fetched object, one level deeper
Children(props, depth) == [i \in 1..Len(props) |-> [value |-> props[i], depth |-> depth + 1]]

\* evaluation returned a RemoteObject: its rendering starts
StartRender(heap, value, maxDepth) ==
    /\ render.todo = <<>>
    /\ remote' = heap
    /\ render' = [todo |-> <<[value |-> value, depth |-> 0]>>, out |-> <<>>,
                  fetches |-> 0, maxDepth |-> maxDepth]
    /\ UNCHANGED notRender

\* the next value is rendered: a scalar directly, an object beyond the depth bound as a
\* placeholder, any other object by a property-fetch call whose values are rendered next
RenderStep ==
    /\ render.todo # <<>>
    /\ render.fetches < MaxFetches
    /\ LET item == Head(render.todo)
           rest == Tail(render.todo)
       IN  IF item.value = "scalar"
           THEN render' = [render EXCEPT !.todo = rest, !.out = Append(@, "value")]
           ELSE IF BeyondDepth(item.depth, render.maxDepth)
           THEN render' = [render EXCEPT !.todo = rest, !.out = Append(@, "[Object]")]
           ELSE render' = [render EXCEPT
                              !.todo = Children(remote[item.value], item.depth) \o rest,
                              !.out = Append(@, "{"),
                              !.fetches = @ + 1]
    /\ UNCHANGED <<remote, notRender>>

(***************************************************************************)
(* Endpoint discovery and the scan_metro tool.                             *)
(***************************************************************************)
\* the ports of the scan range, in scan order
ScanPorts == <<8081, 8082>>

\* the descriptor lists the servers of the scan return
ScanLists ==
    { <<Descriptor(1, {})>>,
      <<Descriptor(1, {"hermes"})>>,
      <<Descriptor(1, {"experimental"})>>,
      <<Descriptor(1, {"hermes"}), Descriptor(2, {"bridgeless"})>> }

\* nothing listens on the port: the reachability probe fails
Closed == [reachable |-> FALSE, body |-> "none", list |-> <<>>]

\* a server answers the metadata request with text that is no JSON array
Malformed == [reachable |-> TRUE, body |-> "malformed", list |-> <<>>]

\* a server answers the metadata request with nothing or with an empty array
Empty == [reachable |-> TRUE, body |-> "empty", list |-> <<>>]

\* a server answers the metadata request with a JSON array of descriptors
Serving(list) == [reachable |-> TRUE, body |-> "array", list |-> list]

\* what is behind a port
PortStates == { Closed, Malformed, Empty } \cup { Serving(list) : list \in ScanLists }

\* scanMetroPorts: the ports that pass the reachability probe, in scan order
ScanMetroPorts(ps) == SelectSeq(ScanPorts, LAMBDA p : ps[p].reachable)

\* fetchDevices: the descriptors parsed from the metadata response of a port; a
\* malformed or empty response gives none
FetchDevicesOf(state) == IF state.body = "array" THEN state.list ELSE <<>>

\* scan_metro reporting an error when no port is reachable
NoServersResponse_error == [ran |-> TRUE, isError |-> TRUE, found |-> FALSE, lines |-> <<>>]

\* scan_metro: "No Metro servers found. ..."
NoServersResponse == [ran |-> TRUE, isError |-> FALSE, found |-> FALSE, lines |-> <<>>]

\* scan_metro: the result lines of one port; connected tells whether connectToDevice
\* returned or threw, attached lists the instances connectToDevice was called with
PortLines(port, devs, connected) ==
    IF Len(devs) = 0
    THEN [port |-> port, count |-> 0, main |-> NoDevice, connection |-> "none",
          attached |-> <<>>]
    ELSE [port |-> port, count |-> Len(devs), main |-> SelectMainDevice(devs),
          connection |-> IF SelectMainDevice(devs) = NoDevice THEN "none"
                         ELSE IF connected THEN "result" ELSE "Failed",
          attached |-> IF SelectMainDevice(devs) = NoDevice THEN <<>>
                       ELSE <<SelectMainDevice(devs)>>]

\* a scan_metro that gives up at the first port whose attach fails
ScanMetroResponse_stopsAtFailure(ps, connects) ==
    LET openPorts == ScanMetroPorts(ps)
        all == [i \in 1..Len(openPorts) |->
                   PortLines(openPorts[i], FetchDevicesOf(ps[openPorts[i]]),
                             connects[openPorts[i]])]
        failed == { i \in 1..Len(all) : all[i].connection = "Failed" }
    IN  IF Len(openPorts) = 0 THEN NoServersResponse
        ELSE [ran |-> TRUE, isError |-> FALSE, found |-> TRUE,
              lines |-> IF failed = {} THEN all
                        ELSE SubSeq(all, 1, CHOOSE i \in failed : \A j \in failed : i <= j)]

\* scan_metro: the response for the ports found open
ScanMetroResponse(ps, connects) ==
    LET openPorts == ScanMetroPorts(ps) IN
    IF Len(openPorts) = 0 THEN NoServersResponse
    ELSE [ran |-> TRUE, isError |-> FALSE, found |-> TRUE,
          lines |-> [i \in 1..Len(openPorts) |->
                        PortLines(openPorts[i], FetchDevicesOf(ps[openPorts[i]]),
                                  connects[openPorts[i]])]]

\* scan_metro has not run since the servers changed
NotScanned == [ran |-> FALSE, isError |-> FALSE, found |-> FALSE, lines |-> <<>>]

\* servers start, stop or change what they return
PortsChange(ps) ==
    /\ ps # portState
    /\ portState' = ps
    /\ scanResponse' = NotScanned
    /\ UNCHANGED notScan

\* the scan_metro tool
ScanMetro(connects) ==
    /\ scanResponse' = ScanMetroResponse(portState, connects)
    /\ UNCHANGED <<portState, notScan>>

(***************************************************************************)
(* Network statistics.                                                     *)
(***************************************************************************)
\* the records handed to NetworkBuffer.set before a statistics call: an open request,
\* one finished in 0 ms or in 5 ms, and a failed one
StatsArgs(id) ==
    { r \in NetworkRequests :
        /\ r.requestId = id
        /\ r.method = "GET"
        /\ r.url = "u1"
        /\ r.timestamp = 1
        /\ \/ r.status = -1 /\ r.duration = -1 /\ r.error = "none" /\ ~r.completed
           \/ r.status = 200 /\ r.duration # -1 /\ r.error = "none" /\ r.completed
           \/ r.status = -1 /\ r.duration = -1 /\ r.error = "failed" /\ r.completed }

\* truthiness of "req.timing?.duration": absent and 0 are falsy
TruthyDuration(d) == d # -1 /\ d # 0

\* the sum of the durations of the records stored under the ids of S
RECURSIVE SumDurations(_, _)
SumDurations(m, S) ==
    IF S = {} THEN 0
    ELSE LET id == CHOOSE x \in S : TRUE IN m[id].duration + SumDurations(m, S \ {id})

\* Math.round of a quotient of naturals
RoundDiv(total, count) == (2 * total + count) \div (2 * count)

\* getNetworkStats has not been called
NoStats == [ran |-> FALSE, total |-> 0, completedCount |-> 0, errorCount |-> 0, avg |-> -1]

\* getNetworkStats: the counters of its loop and the average line (-1: no such line)
GetNetworkStats(m) ==
    LET timed == { id \in DOMAIN m : TruthyDuration(m[id].duration) }
        failed == { id \in DOMAIN m : m[id].error # "none" }
    IN  [ran |-> TRUE,
         total |-> Cardinality(DOMAIN m),
         completedCount |-> Cardinality(timed),
         errorCount |-> Cardinality(failed),
         avg |-> IF Cardinality(timed) > 0
                 THEN RoundDiv(SumDurations(m, timed), Cardinality(timed))
                 ELSE -1]

\* the get_network_stats tool
GetStatsCall ==
    /\ lastStats' = GetNetworkStats(requests)
    /\ UNCHANGED <<netVars, notStats>>

(***************************************************************************)
(* Buffer queries.                                                         *)
(***************************************************************************)
\* no query result yet
\* getAll called with no option: an omitted count behaves as 0, an omitted method or
\* urlPattern as the empty string, an omitted status is -1, an omitted completedOnly FALSE
NoOptions ==
    [count |-> 0, method |-> "", urlPattern |-> "", status |-> -1, completedOnly |-> FALSE]

\* no tool response belongs to the result
NoResponse == [isError |-> FALSE, text |-> "none"]

NoQuery == [op |-> "none", requestId |-> "", response |-> NoResponse, options |-> NoOptions, list |-> <<>>, size |-> 0]

\* a get_logs handler that takes the returned entries out of the buffer
LogGetAllCall_draining ==
    /\ lastQuery' = [op |-> "logs.getAll", requestId |-> "", response |-> NoResponse, options |-> NoOptions, list |-> LogGetAll, size |-> Len(LogGetAll)]
    /\ logs' = <<>>
    /\ UNCHANGED <<logMaxSize, appended, lastGet, lastSearch, held, netVars, notQuery>>

\* LogBuffer.getAll: "[...this.logs]"
LogGetAllCall ==
    /\ lastQuery' = [op |-> "logs.getAll", requestId |-> "", response |-> NoResponse, options |-> NoOptions, list |-> LogGetAll, size |-> Len(LogGetAll)]
    /\ UNCHANGED <<logVars, netVars, notQuery>>

\* get returns "filtered", which is this.logs itself unless one of its three steps
\* replaced it by the result of slice or filter
GetReturnsArray(s, count, level, text) ==
    /\ ~(TruthySeq(text) /\ StartIndex(s, text) # -1)
    /\ ~(TruthyStr(level) /\ level # "all")
    /\ ~(count # 0 /\ count > 0)

\* a caller calls get and keeps the list
HoldGet(count, level, text) ==
    /\ held' = [via |-> "get", alias |-> GetReturnsArray(logs, count, level, text),
                returned |-> LogGet(logs, count, level, text),
                now |-> LogGet(logs, count, level, text)]
    /\ UNCHANGED <<logs, logMaxSize, appended, lastGet, lastSearch, netVars, sessVars, extVars>>

\* a caller calls search and keeps the list: filter builds a new array
HoldSearch(text, maxResults) ==
    /\ held' = [via |-> "search", alias |-> FALSE,
                returned |-> LogSearch(logs, text, maxResults),
                now |-> LogSearch(logs, text, maxResults)]
    /\ UNCHANGED <<logs, logMaxSize, appended, lastGet, lastSearch, netVars, sessVars, extVars>>

\* a caller calls getAll and keeps the list: "[...this.logs]"
HoldGetAll ==
    /\ held' = [via |-> "getAll", alias |-> FALSE, returned |-> LogGetAll, now |-> LogGetAll]
    /\ UNCHANGED <<logs, logMaxSize, appended, lastGet, lastSearch, netVars, sessVars, extVars>>

\* LogBuffer.size
LogSizeCall ==
    /\ lastQuery' = [op |-> "logs.size", requestId |-> "", response |-> NoResponse, options |-> NoOptions, list |-> <<>>, size |-> Len(logs)]
    /\ UNCHANGED <<logVars, netVars, notQuery>>

\* Array.prototype.slice(-n) with n > 0
SliceLast(s, n) == SubSeq(s, IF n < Len(s) THEN Len(s) - n + 1 ELSE 1, Len(s))

\* Array.from(this.requests.values()): the stored records in the Map's iteration order,
\* the order of first insertion
NetValues(m, ord) == [i \in 1..Len(ord) |-> m[ord[i]]]

\* r put into a list sorted by timestamp, behind the records that are not later
InsertByTimestamp(sorted, r) ==
    LET k == Cardinality({ i \in 1..Len(sorted) : sorted[i].timestamp <= r.timestamp })
    IN  SubSeq(sorted, 1, k) \o <<r>> \o SubSeq(sorted, k + 1, Len(sorted))

\* results.sort((a, b) => a.timestamp.getTime() - b.timestamp.getTime()): the sort is
\* stable, records of the same time keep their order
RECURSIVE SortByTimestamp(_)
SortByTimestamp(s) ==
    IF s = <<>> THEN <<>>
    ELSE InsertByTimestamp(SortByTimestamp(SubSeq(s, 1, Len(s) - 1)), s[Len(s)])

\* the substrings of the URLs of the model
SubstringsOf(url) ==
    IF url = "u1" THEN { "", "u", "1", "u1" } ELSE { "", "u", "2", "u2" }

\* "r.url.toLowerCase().includes(pattern)" with pattern = urlPattern.toLowerCase()
UrlIncludes(url, urlPattern) ==
    (IF urlPattern = "U1" THEN "u1" ELSE urlPattern) \in SubstringsOf(url)

\* String.prototype.toUpperCase on the method names of the model
ToUpperCase(method) ==
    IF method = "get" THEN "GET" ELSE IF method = "post" THEN "POST" ELSE method

\* String.prototype.trim on the option strings of the model
Trim(str) == IF str = " " THEN "" ELSE str

\* a getAll that keeps the first count records of the sorted list
NetGetAll_oldest(m, ord, options) ==
    LET sorted == SortByTimestamp(NetValues(m, ord))
        byMethod == IF TruthyStr(options.method) /\ TruthyStr(Trim(options.method))
                    THEN SelectSeq(sorted, LAMBDA r : ToUpperCase(r.method) = ToUpperCase(options.method))
                    ELSE sorted
        byUrl == IF TruthyStr(options.urlPattern) /\ TruthyStr(Trim(options.urlPattern))
                 THEN SelectSeq(byMethod, LAMBDA r : UrlIncludes(r.url, options.urlPattern))
                 ELSE byMethod
        byStatus == IF options.status # -1
                    THEN SelectSeq(byUrl, LAMBDA r : r.status = options.status)
                    ELSE byUrl
        kept == IF options.completedOnly THEN SelectSeq(byStatus, LAMBDA r : r.completed)
                ELSE byStatus
    IN  IF options.count > 0 THEN SliceTo(kept, options.count) ELSE kept

\* NetworkBuffer.getAll(options)
NetGetAll(m, ord, options) ==
    LET sorted == SortByTimestamp(NetValues(m, ord))
        byMethod == IF TruthyStr(options.method) /\ TruthyStr(Trim(options.method))
                    THEN SelectSeq(sorted, LAMBDA r : ToUpperCase(r.method) = ToUpperCase(options.method))
                    ELSE sorted
        byUrl == IF TruthyStr(options.urlPattern) /\ TruthyStr(Trim(options.urlPattern))
                 THEN SelectSeq(byMethod, LAMBDA r : UrlIncludes(r.url, options.urlPattern))
                 ELSE byMethod
        byStatus == IF options.status # -1
                    THEN SelectSeq(byUrl, LAMBDA r : r.status = options.status)
                    ELSE byUrl
        kept == IF options.completedOnly THEN SelectSeq(byStatus, LAMBDA r : r.completed)
                ELSE byStatus
    IN  IF options.count > 0 THEN SliceLast(kept, options.count) ELSE kept

\* NetworkBuffer.search(urlPattern, maxResults): filter, then sort
NetSearch(m, ord, urlPattern, maxResults) ==
    LET results == SortByTimestamp(SelectSeq(NetValues(m, ord),
                                             LAMBDA r : UrlIncludes(r.url, urlPattern)))
    IN  IF maxResults > 0 THEN SliceLast(results, maxResults) ELSE results

\* NetworkBuffer.get called for a request id
NetGetCall(requestId) ==
    /\ lastQuery' = [op |-> "network.get", requestId |-> "", response |-> NoResponse, options |-> NoOptions,
                     list |-> IF NetGet(requests, requestId) = Undefined THEN <<>>
                              ELSE <<NetGet(requests, requestId)>>,
                     size |-> 0]
    /\ UNCHANGED <<logVars, netVars, notQuery>>

\* NetworkBuffer.getAll called with options
NetGetAllCall(options) ==
    /\ lastQuery' = [op |-> "network.getAll", requestId |-> "", response |-> NoResponse, options |-> options,
                     list |-> NetGetAll(requests, insOrder, options),
                     size |-> 0]
    /\ UNCHANGED <<logVars, netVars, notQuery>>

\* NetworkBuffer.search called with a pattern and a cap
NetSearchCall(urlPattern, maxResults) ==
    /\ lastQuery' = [op |-> "network.search", requestId |-> "", response |-> NoResponse,
                     options |-> [NoOptions EXCEPT !.urlPattern = urlPattern, !.count = maxResults],
                     list |-> NetSearch(requests, insOrder, urlPattern, maxResults),
                     size |-> 0]
    /\ UNCHANGED <<logVars, netVars, notQuery>>

\* the clear_logs tool: "const count = logBuffer.clear()", reported in the response
ClearLogs ==
    /\ lastQuery' = [op |-> "clear_logs", requestId |-> "", response |-> NoResponse, options |-> NoOptions, list |-> <<>>, size |-> Len(logs)]
    /\ LogBufferClear
    /\ UNCHANGED notQuery

\* the clear_network tool: "const count = networkBuffer.clear()", reported in the response
ClearNetwork ==
    /\ lastQuery' = [op |-> "clear_network", requestId |-> "", response |-> NoResponse, options |-> NoOptions, list |-> <<>>, size |-> NetSize]
    /\ NetBufferClear
    /\ UNCHANGED notQuery

\* a get_request_details handler that formats whatever the lookup returned
DetailsResponse_unchecked(request) ==
    IF request = Undefined THEN [isError |-> TRUE, text |-> "TypeError"]
    ELSE [isError |-> FALSE, text |-> "details"]

\* the response of get_request_details: 'Request not found' with isError unless the
\* lookup returned a record
DetailsResponse(request) ==
    IF request = Undefined THEN [isError |-> TRUE, text |-> "Request not found"]
    ELSE [isError |-> FALSE, text |-> "details"]

\* the get_request_details tool
GetRequestDetails(requestId) ==
    /\ lastQuery' = [op |-> "get_request_details", requestId |-> requestId,
                     response |-> DetailsResponse(NetGet(requests, requestId)),
                     options |-> NoOptions,
                     list |-> IF NetGet(requests, requestId) = Undefined THEN <<>>
                              ELSE <<NetGet(requests, requestId)>>,
                     size |-> 0]
    /\ UNCHANGED <<logVars, netVars, notQuery>>

\* NetworkBuffer.set called directly, the fate of every id recorded
SetRecord(requestId, request) ==
    /\ NetSet(requestId, request)
    /\ lastSet' = [id |-> requestId, completed |-> request.completed]
    /\ fate' = [x \in ReqIds |->
                   IF x \in DOMAIN requests' THEN "stored"
                   ELSE IF x \in DOMAIN requests THEN "evicted" ELSE fate[x]]
    /\ UNCHANGED <<stage, lastDropped, lastQuery, notTracked>>

\* NetworkBuffer.clear called directly, the fate of every id recorded
ClearRecords ==
    /\ NetBufferClear
    /\ fate' = [x \in ReqIds |-> IF x \in DOMAIN requests THEN "cleared" ELSE fate[x]]
    /\ UNCHANGED <<lastQuery, notTracked>>

\* NetworkBuffer.size
NetSizeCall ==
    /\ lastQuery' = [op |-> "network.size", requestId |-> "", response |-> NoResponse, options |-> NoOptions, list |-> <<>>, size |-> NetSize]
    /\ UNCHANGED <<logVars, netVars, notQuery>>

\* no startDebugHttpServer call was made yet
NoStart == [phase |-> "idle", startPort |-> 0, attempt |-> 0, tried |-> <<>>, result |-> 0]

\* the initializations of the text recognizer, by number
Inits == 1..MaxInits

\* no getEasyOCR call was made yet
NoCall == [how |-> "none", init |-> 0]

InitToolsIdle ==
    /\ easyOCRInstance = 0
    /\ easyOCRInitPromise = 0
    /\ initState = [n \in Inits |-> "none"]
    /\ closing = 0
    /\ lastCall = NoCall
    /\ lastQuery = NoQuery
    /\ fate = [x \in ReqIds |-> "never"]
    /\ activeDebugServerPort = 0
    /\ busyPorts = {}
    /\ httpStart = NoStart
    /\ startResults = <<>>
    /\ lastStats = NoStats
    /\ devices = <<>>
    /\ selected = NotSelected
    /\ portState = [p \in {8081, 8082} |-> Closed]
    /\ scanResponse = NotScanned
    /\ remote = [h \in Handles |-> <<>>]
    /\ render = NoRender

\* the session whose socket the frame queue follows
FrameApp == "A"

\* the console entries the event frames carry
FrameEntries == { e \in LogEntries : Len(e.message) = 1 }

\* a frame without an id: a console event
EventFrame(entry) == [type |-> "event", entry |-> entry, id |-> 0, payload |-> "none"]

\* a frame with an id: the response to a call
ResponseFrame(id, payload) ==
    [type |-> "response", entry |-> [message |-> <<>>, level |-> "log"],
     id |-> id, payload |-> payload]

\* the console entries of the event frames of a queue, in queue order
RECURSIVE EntriesOf(_)
EntriesOf(q) ==
    IF q = <<>> THEN <<>>
    ELSE IF Head(q).type = "event" THEN <<Head(q).entry>> \o EntriesOf(Tail(q))
    ELSE EntriesOf(Tail(q))

\* the socket of an attached instance delivers a console event frame
ConsoleFrameArrives(a, entry) ==
    /\ wsState[a] = "OPEN"
    /\ a \in connectedApps
    /\ Len(arrived) < MaxFrames
    /\ inbox' = [inbox EXCEPT ![a] = Append(@, EventFrame(entry))]
    /\ arrived' = Append(arrived, entry)
    /\ UNCHANGED <<logVars, netVars, sessVars, toolVars>>

\* the socket delivers the response frame of a call the remote side received
ResponseFrameArrives(a, id, payload) ==
    /\ wsState[a] = "OPEN"
    /\ id \in remoteOpen[a]
    /\ \A i \in 1..Len(inbox[a]) : ~(inbox[a][i].type = "response" /\ inbox[a][i].id = id)
    /\ inbox' = [inbox EXCEPT ![a] = Append(@, ResponseFrame(id, payload))]
    /\ UNCHANGED <<arrived, logVars, netVars, sessVars, toolVars>>

\* a message handler that takes the newest queued frame first
ReadFrame_newestFirst(a) ==
    /\ inbox[a] # <<>>
    /\ LET f == inbox[a][Len(inbox[a])] IN
       /\ inbox' = [inbox EXCEPT ![a] = SubSeq(@, 1, Len(@) - 1)]
       /\ IF f.type = "event"
          THEN LogAdd(f.entry) /\ UNCHANGED sessVars
          ELSE HandleResponse(a, f.id, f.payload)
    /\ UNCHANGED <<arrived, toolVars>>

\* the message handler runs for the next frame of the socket: one frame at a time,
\* to completion, in arrival order
ReadFrame(a) ==
    /\ inbox[a] # <<>>
    /\ LET f == Head(inbox[a]) IN
       /\ inbox' = [inbox EXCEPT ![a] = Tail(@)]
       /\ IF f.type = "event"
          THEN LogAdd(f.entry) /\ UNCHANGED sessVars
          ELSE HandleResponse(a, f.id, f.payload)
    /\ UNCHANGED <<arrived, toolVars>>

InitSessIdle ==
    /\ connectedApps = {}
    /\ wsState = [a \in Apps |-> "CLOSED"]
    /\ attachStep = [a \in Apps |-> 0]
    /\ pendingExecutions = <<>>
    /\ messageId = 1
    /\ remoteOpen = [a \in Apps |-> {}]
    /\ doneCount = [id \in 1..MaxIds |-> 0]
    /\ lastDone = NoDone
    /\ lastUnmatched = 0
    /\ inbox = [a \in Apps |-> <<>>]
    /\ arrived = <<>>
    /\ InitToolsIdle

(***************************************************************************)
(* The status server: startDebugHttpServer and its port attempts.          *)
(***************************************************************************)

DEFAULT_HTTP_PORT == 3456

MAX_PORT_ATTEMPTS == 20

\* "options.port ?? DEFAULT_HTTP_PORT" (-1: no port option)
StartPortOf(port) == IF port = -1 THEN DEFAULT_HTTP_PORT ELSE port

\* an attempt that leaves out the start port
PortOfAttempt_skipsFirst(startPort, attempt) == startPort + attempt + 1

\* "const port = startPort + attempt"
PortOfAttempt(startPort, attempt) == startPort + attempt

\* the first k ports from the default port on
FirstPorts(k) == DEFAULT_HTTP_PORT .. (DEFAULT_HTTP_PORT + k - 1)

\* the port sets other processes take: a few ports, all but one of the ports of a
\* start, all of them, and every second one
PortBlocks ==
    { FirstPorts(k) : k \in { 1, 2, MAX_PORT_ATTEMPTS - 1, MAX_PORT_ATTEMPTS, MAX_PORT_ATTEMPTS + 1 } }
        \cup { { DEFAULT_HTTP_PORT, DEFAULT_HTTP_PORT + 2 } }

\* the port options of the calls explored
PortOptions == { -1, DEFAULT_HTTP_PORT + 1 }

\* the ports the servers of this process listen on
OwnPorts == { startResults[i] : i \in 1..Len(startResults) } \ { 0 }

\* startDebugHttpServer called: the server is created, no port was tried yet
StartDebugHttpServer(port) ==
    /\ httpStart.phase # "running"
    /\ Len(startResults) < MaxStarts
    /\ httpStart' = [phase |-> "running", startPort |-> StartPortOf(port), attempt |-> 0,
                     tried |-> <<>>, result |-> 0]
    /\ UNCHANGED <<activeDebugServerPort, busyPorts, startResults, notHttp>>

\* one turn of the loop: tryListenOnPort on the next port; a listen that succeeds
\* records the port and ends the call, one that fails is caught and the loop goes on
TryListenOnPort ==
    /\ httpStart.phase = "running"
    /\ httpStart.attempt < MAX_PORT_ATTEMPTS
    /\ LET port == PortOfAttempt(httpStart.startPort, httpStart.attempt)
       IN  IF port \notin busyPorts
           THEN /\ activeDebugServerPort' = port
                /\ busyPorts' = busyPorts \cup {port}
                /\ httpStart' = [httpStart EXCEPT
                                    !.phase = "done",
                                    !.tried = Append(@, [port |-> port, listened |-> TRUE]),
                                    !.result = port]
                /\ startResults' = Append(startResults, port)
           ELSE /\ httpStart' = [httpStart EXCEPT
                                    !.attempt = @ + 1,
                                    !.tried = Append(@, [port |-> port, listened |-> FALSE])]
                /\ UNCHANGED <<activeDebugServerPort, busyPorts, startResults>>
    /\ UNCHANGED notHttp

\* the loop ran out of attempts: "return null"
StartReturnsNull ==
    /\ httpStart.phase = "running"
    /\ httpStart.attempt >= MAX_PORT_ATTEMPTS
    /\ httpStart' = [httpStart EXCEPT !.phase = "done", !.result = 0]
    /\ startResults' = Append(startResults, 0)
    /\ UNCHANGED <<activeDebugServerPort, busyPorts, notHttp>>

\* other processes start to listen on a set of ports
OthersListen(ports) ==
    /\ busyPorts' = busyPorts \cup ports
    /\ UNCHANGED <<activeDebugServerPort, httpStart, startResults, notHttp>>

\* other processes stop listening
OthersStop ==
    /\ busyPorts' = OwnPorts
    /\ UNCHANGED <<activeDebugServerPort, httpStart, startResults, notHttp>>

(***************************************************************************)
(* The text recognizer: the cached engine, its initialization and its end. *)
(***************************************************************************)

\* the initializations whose promise is pending
Running == { n \in Inits : initState[n] = "running" }

\* the initializations not started yet
Unused == { n \in Inits : initState[n] = "none" }

\* getEasyOCR called (by recognizeText): the instance if there is one, else the
\* cached promise if there is one, else a new initialization whose promise is cached
GetEasyOCR ==
    /\ IF easyOCRInstance # 0
       THEN /\ lastCall' = [how |-> "instance", init |-> easyOCRInstance]
            /\ UNCHANGED <<easyOCRInitPromise, initState>>
       ELSE IF easyOCRInitPromise # 0
       THEN /\ lastCall' = [how |-> "cached", init |-> easyOCRInitPromise]
            /\ UNCHANGED <<easyOCRInitPromise, initState>>
       ELSE /\ Unused # {}
            /\ LET n == CHOOSE x \in Unused : \A y \in Unused : x <= y
               IN  /\ easyOCRInitPromise' = n
                   /\ initState' = [initState EXCEPT ![n] = "running"]
                   /\ lastCall' = [how |-> "new", init |-> n]
    /\ UNCHANGED <<easyOCRInstance, closing, notOcr>>

\* the body of an initialization reaches "easyOCRInstance = ocr; return ocr"
InitResolves(n) ==
    /\ initState[n] = "running"
    /\ initState' = [initState EXCEPT ![n] = "resolved"]
    /\ easyOCRInstance' = n
    /\ UNCHANGED <<easyOCRInitPromise, closing, lastCall, notOcr>>

\* the body of an initialization throws (import, model setup, init or its timeout):
\* "easyOCRInitPromise = null; throw error"
InitRejects(n) ==
    /\ initState[n] = "running"
    /\ initState' = [initState EXCEPT ![n] = "rejected"]
    /\ easyOCRInitPromise' = 0
    /\ UNCHANGED <<easyOCRInstance, closing, lastCall, notOcr>>

\* terminateOCRWorker called: with an instance it waits for close(), without one it
\* returns at once
TerminateOCRWorker ==
    /\ IF easyOCRInstance # 0
       THEN closing < MaxClosing /\ closing' = closing + 1
       ELSE UNCHANGED closing
    /\ UNCHANGED <<easyOCRInstance, easyOCRInitPromise, initState, lastCall, notOcr>>

\* the close() a terminateOCRWorker call waits for settles (an error is ignored):
\* "easyOCRInstance = null; easyOCRInitPromise = null"
CloseSettles ==
    /\ closing > 0
    /\ closing' = closing - 1
    /\ easyOCRInstance' = 0
    /\ easyOCRInitPromise' = 0
    /\ UNCHANGED <<initState, lastCall, notOcr>>

(***************************************************************************)
(* Specifications                                                          *)
(***************************************************************************)
\* the histories of an empty table
InitNetHistory ==
    /\ insOrder = <<>>
    /\ everCompleted = {}
    /\ stage = [x \in ReqIds |-> NoStage]
    /\ lastSet = NoSet
    /\ lastDropped = "none"

InitNetIdle == requests = <<>> /\ order = <<>> /\ netMaxSize = 1 /\ InitNetHistory

InitLogIdle ==
    /\ logs = <<>>
    /\ appended = <<>>
    /\ lastGet = NoGet
    /\ held = NoHeld
    /\ lastSearch = NoSearch
    /\ logMaxSize = 1

InitLog ==
    /\ logMaxSize \in 1..MaxLogCap
    /\ logs = <<>>
    /\ appended = <<>>
    /\ lastGet = NoGet
    /\ held = NoHeld
    /\ lastSearch = NoSearch
    /\ InitNetIdle
    /\ InitSessIdle

NextLog ==
    \/ \E entry \in LogEntries : LogAddCall(entry)
    \/ LogClear
    \/ \E count \in -1..MaxCount, level \in LevelArgs, text \in Texts :
           LogGetCall(count, level, text)
    \/ \E text \in SearchTexts, maxResults \in -1..MaxCount : LogSearchCall(text, maxResults)
    \/ \E text \in SearchTexts, maxResults \in -1..MaxCount : SearchLogsCall(text, maxResults)

SpecLog == InitLog /\ [][NextLog]_vars

InitNet ==
    /\ netMaxSize \in 1..MaxNetCap
    /\ requests = <<>>
    /\ order = <<>>
    /\ InitNetHistory
    /\ InitLogIdle
    /\ InitSessIdle

NextNet ==
    \/ \E id \in ReqIds : \E request \in SetArgs(id) : NetSetCall(id, request)
    \/ NetClear

SpecNet == InitNet /\ [][NextNet]_vars

\* the network table built with any capacity the constructor accepts, 0 included
InitNetAnyCap ==
    /\ netMaxSize \in 0..MaxNetCap
    /\ requests = <<>>
    /\ order = <<>>
    /\ InitNetHistory
    /\ InitLogIdle
    /\ InitSessIdle

SpecNetAnyCap == InitNetAnyCap /\ [][NextNet]_vars

\* the network table driven by the network events of the sessions
NextNetEvents ==
    \/ \E id \in EventIds, o \in Origins : RequestWillBeSent(id, o[1], o[2])
    \/ \E id \in EventIds, status \in Statuses \ {-1} : ResponseReceived(id, status)
    \/ \E id \in EventIds, duration \in EventDurations : LoadingFinished(id, duration)
    \/ \E id \in EventIds : LoadingFailed(id)
    \/ NetClear

SpecNetEvents == InitNet /\ [][NextNetEvents]_vars

\* the bridge: sessions, calls and events over the process-wide state
Init ==
    /\ InitSessIdle
    /\ logs = <<>>
    /\ appended = <<>>
    /\ lastGet = NoGet
    /\ held = NoHeld
    /\ lastSearch = NoSearch
    /\ logMaxSize = MaxLogCap
    /\ requests = <<>>
    /\ order = <<>>
    /\ netMaxSize = MaxNetCap
    /\ InitNetHistory

Next ==
    \/ \E a \in Apps : Attach(a)
    \/ \E a \in Apps : SocketOpen(a)
    \/ EvaluateNoApp
    \/ \E a \in Apps : EvaluateNotOpen(a)
    \/ \E a \in Apps : Evaluate(a)
    \/ \E a \in Apps, id \in 1..MaxIds, payload \in Payloads : Response(a, id, payload)
    \/ \E id \in 1..MaxIds : Timeout(id)
    \/ \E a \in Apps : SocketClosing(a)
    \/ \E a \in Apps : SocketClosed(a)
    \/ \E a \in Apps : LogEvent(a)
    \/ \E a \in Apps : NetEvent(a)

Spec == Init /\ [][Next]_vars

\* the call path alone (no telemetry events), with the timers of the pending
\* calls running: an armed timer eventually fires
NextCalls ==
    \/ \E a \in Apps : Attach(a)
    \/ \E a \in Apps : SocketOpen(a)
    \/ EvaluateNoApp
    \/ \E a \in Apps : EvaluateNotOpen(a)
    \/ \E a \in Apps : Evaluate(a)
    \/ \E a \in Apps, id \in 1..MaxIds, payload \in Payloads : Response(a, id, payload)
    \/ \E id \in 1..MaxIds : Timeout(id)
    \/ \E a \in Apps : SocketClosing(a)
    \/ \E a \in Apps : SocketClosed(a)

SpecLive ==
    /\ Init
    /\ [][NextCalls]_vars
    /\ \A id \in 1..MaxIds : WF_vars(Timeout(id))

\* the session of FrameApp after its attach completed and a first evaluation returned a
\* value, nothing else attached
InitFrames ==
    /\ connectedApps = {FrameApp}
    /\ wsState = [a \in Apps |-> IF a = FrameApp THEN "OPEN" ELSE "CLOSED"]
    /\ attachStep = [a \in Apps |-> IF a = FrameApp THEN NumDomains ELSE 0]
    /\ pendingExecutions = <<>>
    /\ messageId = NumDomains + 2
    /\ remoteOpen = [a \in Apps |-> {}]
    /\ doneCount = [id \in 1..MaxIds |-> IF id <= NumDomains + 1 THEN 1 ELSE 0]
    /\ lastDone = Completion({NumDomains + 1}, "evaluate", "value")
    /\ lastUnmatched = 0
    /\ inbox = [a \in Apps |-> <<>>]
    /\ arrived = <<>>
    /\ InitToolsIdle
    /\ logs = <<>>
    /\ appended = <<>>
    /\ lastGet = NoGet
    /\ held = NoHeld
    /\ lastSearch = NoSearch
    /\ logMaxSize = MaxLogCap - 1
    /\ requests = <<>>
    /\ order = <<>>
    /\ netMaxSize = MaxNetCap
    /\ InitNetHistory

\* one session with its frame queue: calls are issued, frames arrive and are handled
NextFrames ==
    \/ \E a \in Apps : Evaluate(a)
    \/ \E a \in Apps, entry \in FrameEntries : ConsoleFrameArrives(a, entry)
    \/ \E a \in Apps, id \in 1..MaxIds, payload \in Payloads : ResponseFrameArrives(a, id, payload)
    \/ \E a \in Apps : ReadFrame(a)

\* the message handler runs whenever a frame is queued; nothing makes a call complete
SpecFrames ==
    /\ InitFrames
    /\ [][NextFrames]_vars
    /\ \A a \in Apps : WF_vars(ReadFrame(a))

\* the selector on the lists one endpoint returns
InitSelect ==
    /\ InitSessIdle
    /\ InitLogIdle
    /\ InitNetIdle

NextSelect ==
    \/ \E list \in DeviceLists : FetchDevices(list)
    \/ SelectCall

SpecSelect == InitSelect /\ [][NextSelect]_vars

\* renderings of the values an evaluation returns; a started rendering goes on
InitRender ==
    /\ InitSessIdle
    /\ InitLogIdle
    /\ InitNetIdle

NextRender ==
    \/ \E heap \in Heaps, value \in RemoteValues, maxDepth \in 0..MaxDepth :
           StartRender(heap, value, maxDepth)
    \/ RenderStep

SpecRender == InitRender /\ [][NextRender]_vars /\ WF_vars(RenderStep)

\* scans of a port range whose servers come and go
InitScan ==
    /\ InitSessIdle
    /\ InitLogIdle
    /\ InitNetIdle

NextScan ==
    \/ \E ps \in [{8081, 8082} -> PortStates] : PortsChange(ps)
    \/ \E connects \in [{8081, 8082} -> BOOLEAN] : ScanMetro(connects)

SpecScan == InitScan /\ [][NextScan]_vars

\* statistics over the tables that sets and clears build
NextStats ==
    \/ \E id \in ReqIds \ {""} : \E request \in StatsArgs(id) : NetSetCall(id, request)
    \/ NetClear
    \/ GetStatsCall

SpecStats == InitNet /\ [][NextStats]_vars

\* a log buffer and a caller that keeps what the queries return
InitHeld ==
    /\ InitSessIdle
    /\ InitNetIdle
    /\ logs = <<>>
    /\ appended = <<>>
    /\ lastGet = NoGet
    /\ held = NoHeld
    /\ lastSearch = NoSearch
    /\ logMaxSize \in 1..MaxLogCap

NextHeld ==
    \/ \E entry \in FrameEntries : LogAddCall(entry)
    \/ LogClear
    \/ \E count \in 0..MaxCount, level \in LevelArgs, text \in {<<>>, <<"a">>} :
           HoldGet(count, level, text)
    \/ \E maxResults \in 0..1 : HoldSearch(<<"a">>, maxResults)
    \/ HoldGetAll

SpecHeld == InitHeld /\ [][NextHeld]_vars

\* the records a filtered listing is asked over: GET requests of u1 and POST requests
\* of u2, open or answered with 200 and completed, of either time
QueryRecords(id) ==
    { r \in NetworkRequests :
        /\ r.requestId = id
        /\ r.method = "GET" <=> r.url = "u1"
        /\ r.completed <=> r.status = 200
        /\ r.duration = -1
        /\ r.error = "none" }

\* the options of the listings explored
QueryOptions ==
    [count : 0..MaxCount, method : { "", " ", "get", "POST" }, urlPattern : { "", "U1" },
     status : Statuses, completedOnly : BOOLEAN]

\* a table of three records, inserted as r1, r2, r3 into a table with room for them;
\* the last one is an open request of the earlier time
InitNetQuery ==
    /\ InitLogIdle
    /\ InitSessIdle
    /\ netMaxSize = MaxNetCap + 1
    /\ order = <<"r1", "r2", "r3">>
    /\ insOrder = order
    /\ \E a \in QueryRecords("r1"), b \in QueryRecords("r2"),
          c \in { r \in QueryRecords("r3") : r.timestamp = 1 /\ ~r.completed } :
           requests = ("r1" :> a) @@ ("r2" :> b) @@ ("r3" :> c)
    /\ everCompleted = { x \in DOMAIN requests : requests[x].completed }
    /\ stage = [x \in ReqIds |-> NoStage]
    /\ lastSet = [id |-> "r3", completed |-> requests["r3"].completed]
    /\ lastDropped = "none"

NextNetQuery ==
    \/ \E options \in QueryOptions : NetGetAllCall(options)
    \/ \E urlPattern \in { "", "U1", "2" }, maxResults \in 0..MaxCount :
           NetSearchCall(urlPattern, maxResults)

SpecNetQuery == InitNetQuery /\ [][NextNetQuery]_vars

\* both buffers filled by direct calls and emptied by the clear tools
InitClear ==
    /\ InitSessIdle
    /\ InitLogIdle
    /\ netMaxSize \in 1..MaxNetCap
    /\ requests = <<>>
    /\ order = <<>>
    /\ InitNetHistory

NextClear ==
    \/ LogAddCall([message |-> <<"a">>, level |-> "log"])
    \/ ClearLogs
    \/ \E id \in EventIds : \E request \in SetArgs(id) : NetSetCall(id, request)
    \/ ClearNetwork

SpecClear == InitClear /\ [][NextClear]_vars

\* single-record lookups on a table filled and emptied by direct calls
NextDetails ==
    \/ \E id \in ReqIds : \E request \in SetArgs(id) : SetRecord(id, request)
    \/ ClearRecords
    \/ \E id \in ReqIds : GetRequestDetails(id)

SpecDetails == InitNet /\ [][NextDetails]_vars

\* starts of the status server while other processes take and free ports
NextHttp ==
    \/ \E port \in PortOptions : StartDebugHttpServer(port)
    \/ TryListenOnPort
    \/ StartReturnsNull
    \/ \E ports \in PortBlocks : OthersListen(ports)
    \/ OthersStop

SpecHttp == InitScan /\ [][NextHttp]_vars

\* calls of the text recognizer and of its end, in any interleaving
NextOcr ==
    \/ GetEasyOCR
    \/ \E n \in Inits : InitResolves(n)
    \/ \E n \in Inits : InitRejects(n)
    \/ TerminateOCRWorker
    \/ CloseSettles

SpecOcr == InitScan /\ [][NextOcr]_vars

\* both buffers with their mutators and every query
InitQueries ==
    /\ InitSessIdle
    /\ logs = <<>>
    /\ appended = <<>>
    /\ lastGet = NoGet
    /\ held = NoHeld
    /\ lastSearch = NoSearch
    /\ logMaxSize = MaxLogCap - 1
    /\ requests = <<>>
    /\ order = <<>>
    /\ netMaxSize = MaxNetCap - 1
    /\ InitNetHistory

\* a step of a LogBuffer query
LogQueryStep ==
    \/ LogGetCall(0, "", <<>>)
    \/ LogSearchCall(<<"a">>, 0)
    \/ LogGetAllCall
    \/ LogSizeCall

\* a step of a NetworkBuffer query
NetQueryStep ==
    \/ NetGetCall("r1")
    \/ \E completedOnly \in BOOLEAN :
           NetGetAllCall([NoOptions EXCEPT !.completedOnly = completedOnly])
    \/ NetSearchCall("U1", 1)
    \/ NetSizeCall

NextQueries ==
    \/ \E entry \in FrameEntries : LogAddCall(entry)
    \/ LogClear
    \/ LogQueryStep
    \/ \E id \in {"", "r1"} : \E request \in SetArgs(id) : NetSetCall(id, request)
    \/ NetClear
    \/ NetQueryStep

SpecQueries == InitQueries /\ [][NextQueries]_vars

(***************************************************************************)
(* Properties                                                              *)
(***************************************************************************)
Min(a, b) == IF a < b THEN a ELSE b

\* the last n elements of s
LastN(s, n) == SubSeq(s, Len(s) - n + 1, Len(s))

\* C1: after n adds with no clear in between, getAll is exactly the last
\* min(capacity, n) appended entries, in the order they were appended.
C1_RetainsMostRecent ==
    LogGetAll = LastN(appended, Min(logMaxSize, Len(appended)))

\* C1 witness: capacity 3 and four adds A,B,C,D with A # B: getAll is [B,C,D].
C1_Witness ==
    /\ logMaxSize = 3
    /\ Len(appended) = 4
    /\ appended[1] # appended[2]
    /\ LogGetAll = <<appended[2], appended[3], appended[4]>>

\* C2 (as claimed): the number of stored requests never exceeds the capacity.
C2_SizeWithinCapacity == NetSize <= netMaxSize

\* positions (1-based) of the entries of s whose message contains text
MatchPositions(s, text) == { i \in 1..Len(s) : Includes(s[i].message, text) }

\* the most recent matching entry together with every later entry
FromLastMatch(s, text) ==
    LET k == CHOOSE i \in MatchPositions(s, text) :
                 \A j \in MatchPositions(s, text) : j <= i
    IN  SubSeq(s, k, Len(s))

\* C10: get with a startFromText that some buffered message contains works on
\* the most recent matching entry and every later entry, in buffer order; the
\* level filter and the count cap are applied to that list.
C10_StartsAtLastMatch ==
    (lastGet.called /\ TruthySeq(lastGet.text) /\ MatchPositions(logs, lastGet.text) # {})
        => lastGet.result =
               AfterCount(AfterLevel(FromLastMatch(logs, lastGet.text), lastGet.level),
                          lastGet.count)

\* C10 witness: two entries match, the older one is first in the buffer, and an
\* unfiltered, uncapped get returns the list from the newer match onward.
C10_Witness ==
    /\ lastGet.called
    /\ lastGet.text = <<"a">>
    /\ lastGet.level = "all"
    /\ lastGet.count = 0
    /\ Len(logs) = 3
    /\ MatchPositions(logs, lastGet.text) = {1, 2}
    /\ lastGet.result = <<logs[2], logs[3]>>

\* C3: a call is completed exactly once and leaves the pending table at that
\* moment: every issued id is either pending and not completed, or completed
\* once and not pending; no handle is ever completed twice.
C3_CompletedOnce ==
    \A id \in 1..MaxIds :
        /\ doneCount[id] <= 1
        /\ id < messageId => ((id \in DOMAIN pendingExecutions) <=> (doneCount[id] = 0))
        /\ id >= messageId => (id \notin DOMAIN pendingExecutions /\ doneCount[id] = 0)

\* C3 witness: an evaluate call completed by its response is gone from the
\* pending table while its session is still open.
C3_Witness ==
    \E id \in 1..MaxIds :
        /\ lastDone.ids = {id}
        /\ lastDone.kind = "evaluate"
        /\ lastDone.cause = "value"
        /\ doneCount[id] = 1
        /\ id \notin DOMAIN pendingExecutions

\* C4: a call that leaves the pending table while the remote side has not
\* answered it resolved to a timeout; the response frame that arrives later
\* finds no entry and changes neither the pending table, nor the completions,
\* nor the buffers, and the call stays completed exactly once.
C4_LateResponseIsNoOp ==
    [][ /\ \A a \in Apps : \A id \in PendingOf(a) :
               (id \notin DOMAIN pendingExecutions' /\ id \in remoteOpen'[a])
                   => (lastDone'.cause = "timeout" /\ lastDone'.ids = {id})
        /\ lastUnmatched' # lastUnmatched
               => /\ UNCHANGED <<pendingExecutions, doneCount, lastDone, logs, requests, order,
                                 connectedApps, messageId>>
                  /\ doneCount[lastUnmatched'] = 1
      ]_vars

\* C4 witness: an evaluate call timed out and its response arrived afterwards.
C4_Witness ==
    /\ lastUnmatched # 0
    /\ lastDone.ids = {lastUnmatched}
    /\ lastDone.kind = "evaluate"
    /\ lastDone.cause = "timeout"
    /\ doneCount[lastUnmatched] = 1

C6_NoCallPendingForever ==
    \A id \in 1..MaxIds :
        (id \in DOMAIN pendingExecutions) ~> (id \notin DOMAIN pendingExecutions)

\* C6 witness: an evaluate call ended by its timer on a socket that is still
\* open and that never delivered the response.
C6_Witness ==
    \E a \in Apps : \E id \in remoteOpen[a] :
        /\ a \in connectedApps
        /\ wsState[a] = "OPEN"
        /\ lastDone.ids = {id}
        /\ lastDone.kind = "evaluate"
        /\ lastDone.cause = "timeout"

EvalCauses ==
    { "value", "exception", "protocol error", "timeout", "connection closed",
      "no apps connected", "transport failure" }

\* C7: every evaluation returns an outcome value: success with the rendered
\* text for a value, failure with an error text for every other cause; the
\* tool answers success with the result text and failure with an error response.
C7_AlwaysAnOutcome ==
    lastDone.kind = "evaluate" =>
        /\ lastDone.cause \in EvalCauses
        /\ lastDone.result.success = (lastDone.cause = "value")
        /\ lastDone.cause = "value"
               => /\ lastDone.result.result # "none"
                  /\ lastDone.response = [isError |-> FALSE, text |-> <<lastDone.result.result>>]
        /\ lastDone.cause # "value"
               => /\ lastDone.result.error # "none"
                  /\ lastDone.response =
                         [isError |-> TRUE, text |-> <<"Error: ", lastDone.result.error>>]

\* C7 witness: an evaluation answered with an exception payload ended as a
\* failed outcome and an error response.
C7_Witness ==
    /\ lastDone.kind = "evaluate"
    /\ lastDone.cause = "exception"
    /\ lastDone.result.success = FALSE
    /\ lastDone.response.isError

\* an event received or a call issued on the session of instance a
SessionStep(a) == LogEvent(a) \/ NetEvent(a) \/ Evaluate(a) \/ SocketOpen(a)

\* the log buffer, network table, pending table and id counter the session of
\* instance b works on: the process-wide objects, whatever b is
StateUsedBy(b) == <<logs, requests, order, pendingExecutions, messageId>>

\* C8 (as claimed): an event or call on one session leaves the log buffer,
\* network table, pending table and id counter of every other session unchanged.
C8_NoSharedState ==
    [][ \A a \in Apps : SessionStep(a) =>
            \A b \in Apps \ {a} : wsState[b] = "OPEN" => StateUsedBy(b)' = StateUsedBy(b)
      ]_vars

\* C8 (amended): the buffers, the pending table and the id counter are shared
\* by all sessions; an event or call on one session never removes, replaces or
\* completes a call pending on another session and never changes another
\* instance's socket, attach progress or registry membership.
C8_OtherSessionsCallsUntouched ==
    [][ \A a \in Apps : SessionStep(a) =>
            \A b \in Apps \ {a} :
                /\ \A id \in PendingOf(b) :
                       /\ id \in DOMAIN pendingExecutions'
                       /\ pendingExecutions'[id] = pendingExecutions[id]
                       /\ doneCount'[id] = doneCount[id]
                /\ wsState'[b] = wsState[b]
                /\ attachStep'[b] = attachStep[b]
                /\ (b \in connectedApps') <=> (b \in connectedApps)
      ]_vars

\* C8 witness: instance A is attached and its console event is in the log
\* buffer while a call is pending on the session of instance B.
C8_Witness ==
    /\ "A" \in connectedApps
    /\ logs # <<>>
    /\ logs[Len(logs)] = EntryOf("A")
    /\ PendingOf("B") # {}
    /\ wsState["B"] = "OPEN"

\* the transport session of instance a is live: attached and its socket open
SessionLive(a) == attachStep[a] = NumDomains /\ wsState[a] = "OPEN"

\* C9 (as claimed): an instance is in the registry iff its session is live, so
\* every registry entry refers to an open socket.
C9_RegistryIffLive ==
    \A a \in Apps : (a \in connectedApps) <=> SessionLive(a)

\* C9 (amended): an instance is in the registry iff its attach succeeded and
\* the close of its socket has not been handled yet: the socket of a registry
\* entry is open or closing, and an entry whose socket is closing is shown as
\* not connected.
C9_RegistryUntilCloseHandled ==
    \A a \in Apps :
        /\ (a \in connectedApps) <=>
               (attachStep[a] = NumDomains /\ wsState[a] \in {"OPEN", "CLOSING"})
        /\ (a \in connectedApps /\ wsState[a] = "CLOSING") => ~IsConnected(a)

\* C9 witness: a registry entry whose socket is closing.
C9_Witness ==
    \E a \in Apps :
        /\ a \in connectedApps
        /\ wsState[a] = "CLOSING"
        /\ ~IsConnected(a)

\* the entries get works on before the count cap: after startFromText and level
PassingFilters == AfterLevel(AfterStart(logs, lastGet.text), lastGet.level)

\* C11 (as claimed): get with a startFromText that no buffered message
\* contains returns an empty list.
C11_NoMatchGivesEmpty ==
    (lastGet.called /\ TruthySeq(lastGet.text) /\ MatchPositions(logs, lastGet.text) = {})
        => lastGet.result = <<>>

\* C11 (amended): get with a startFromText that no buffered message contains
\* returns what the same call without startFromText returns: the whole
\* buffer, level-filtered and count-capped.
C11_NoMatchGivesWholeBuffer ==
    (lastGet.called /\ TruthySeq(lastGet.text) /\ MatchPositions(logs, lastGet.text) = {})
        => /\ lastGet.result = LogGet(logs, lastGet.count, lastGet.level, <<>>)
           /\ (lastGet.count <= 0 /\ lastGet.level \in {"all", ""}) => lastGet.result = logs

\* C11 witness: two entries are buffered, none contains the text, and the
\* unfiltered, uncapped get returns both.
C11_Witness ==
    /\ lastGet.called
    /\ lastGet.text = <<"b", "a">>
    /\ lastGet.level = "all"
    /\ lastGet.count = 0
    /\ Len(logs) = 2
    /\ MatchPositions(logs, lastGet.text) = {}
    /\ lastGet.result = logs

\* the oldest matching entry together with every later entry
FromFirstMatch(s, text) ==
    LET k == CHOOSE i \in MatchPositions(s, text) :
                 \A j \in MatchPositions(s, text) : i <= j
    IN  SubSeq(s, k, Len(s))

\* C12 (as claimed): get_logs with startFromText returns the logs starting
\* from the first log line containing the text.
C12_StartsAtFirstMatch ==
    (lastGet.called /\ TruthySeq(lastGet.text) /\ MatchPositions(logs, lastGet.text) # {})
        => lastGet.result =
               AfterCount(AfterLevel(FromFirstMatch(logs, lastGet.text), lastGet.level),
                          lastGet.count)

\* C13 (as claimed): with count N > 0 and more than N entries passing the
\* filters, get returns the N newest of them.
C13_CountKeepsNewest ==
    (lastGet.called /\ lastGet.count > 0 /\ Len(PassingFilters) > lastGet.count)
        => lastGet.result = LastN(PassingFilters, lastGet.count)

\* two characters are the same letter, whatever their case
SameLetter(c, d) == c = d \/ {c, d} = {"a", "A"} \/ {c, d} = {"b", "B"}

\* message contains text when both are compared case-insensitively
ContainsIgnoringCase(message, text) ==
    \E i \in 0..(Len(message) - Len(text)) :
        \A k \in 1..Len(text) : SameLetter(message[i + k], text[k])

\* positions of the buffered entries that contain text case-insensitively
SearchPositions(text) == { i \in 1..Len(logs) : ContainsIgnoringCase(logs[i].message, text) }

\* the k-th smallest element of a set of positions
KthPosition(P, k) == CHOOSE i \in P : Cardinality({ j \in P : j <= i }) = k

\* C14: search(text) without a cap returns exactly the buffered entries whose
\* message contains text case-insensitively, in buffer order.
C14_SearchIgnoresCase ==
    (lastSearch.called /\ lastSearch.via = "search" /\ lastSearch.maxResults <= 0)
        => /\ Len(lastSearch.result) = Cardinality(SearchPositions(lastSearch.text))
           /\ \A k \in 1..Len(lastSearch.result) :
                  lastSearch.result[k] = logs[KthPosition(SearchPositions(lastSearch.text), k)]

\* C14 witness: searching "B" over [aB, a, b] returns the first and the third
\* entry, in that order.
C14_Witness ==
    /\ lastSearch.called
    /\ lastSearch.via = "search"
    /\ lastSearch.maxResults = 0
    /\ lastSearch.text = <<"B">>
    /\ Len(logs) = 3
    /\ logs[1].message = <<"a", "B">>
    /\ logs[2].message = <<"a">>
    /\ logs[3].message = <<"b">>
    /\ lastSearch.result = <<logs[1], logs[3]>>

\* C15 (as claimed): search_logs with maxResults = N > 0 and more than N
\* matching entries in the buffer returns exactly N entries.
C15_ToolHonoursMaxResults ==
    (lastSearch.called /\ lastSearch.via = "search_logs" /\ lastSearch.maxResults > 0
         /\ Cardinality(SearchPositions(lastSearch.text)) > lastSearch.maxResults)
        => Len(lastSearch.result) = lastSearch.maxResults


\* C16. When NetworkBuffer.set inserts a new request id into a full table, the record
\* that leaves the table is the one whose id was first inserted earliest among those
\* present, whatever its completed flag and whatever later sets updated it.
C16_EvictsEarliestInserted ==
    [][\A id \in ReqIds : \A request \in SetArgs(id) :
          (/\ NetSetCall(id, request)
           /\ id \notin DOMAIN requests
           /\ NetSize >= netMaxSize)
          => DOMAIN requests' = ((DOMAIN requests) \ {Head(insOrder)}) \cup {id}]_vars

\* the update events of a request id
UpdateEvent(id) ==
    \/ \E status \in Statuses \ {-1} : ResponseReceived(id, status)
    \/ \E duration \in EventDurations : LoadingFinished(id, duration)
    \/ LoadingFailed(id)

\* C17. A response-received, loading-finished or loading-failed event whose request id
\* is not in the network table is dropped: the table's size and contents are unchanged
\* and no record is created.
C17_UnknownIdIsDropped ==
    [][\A id \in EventIds :
          (id \notin DOMAIN requests /\ UpdateEvent(id))
          => /\ requests' = requests
             /\ order' = order
             /\ Cardinality(DOMAIN requests') = NetSize
             /\ lastDropped' = id]_vars

\* an update event was dropped for an id that had been in the table before and was
\* evicted by the records that are now stored
C17_Witness ==
    /\ lastDropped \in EventIds
    /\ lastDropped \notin DOMAIN requests
    /\ NetSize = netMaxSize
    /\ netMaxSize >= 2

\* C18 as stated. Once a stored record has completed = true, nothing makes it false
\* again while the record stays in the table.
C18_CompletedIsMonotonic ==
    \A id \in everCompleted : id \in DOMAIN requests => requests[id].completed

\* C18. NetworkBuffer.set is a plain upsert: after set(id, request) the record stored
\* under id has the completed flag of the record passed (so a set passing false resets
\* a true flag), and the flags of the records that stay stored under other ids are
\* unchanged.
C18_FlagFollowsSet ==
    /\ [](lastSet # NoSet
           => /\ lastSet.id \in DOMAIN requests
              /\ requests[lastSet.id].completed = lastSet.completed)
    /\ [][\A id \in ReqIds : \A request \in SetArgs(id) :
             NetSetCall(id, request)
             => \A x \in ((DOMAIN requests) \cap (DOMAIN requests')) \ {id} :
                    requests'[x].completed = requests[x].completed]_vars

\* a record that was completed is stored with completed = false, next to another record
C18_Witness ==
    /\ lastSet.id \in everCompleted
    /\ lastSet.id \in DOMAIN requests
    /\ ~lastSet.completed
    /\ ~requests[lastSet.id].completed
    /\ NetSize >= 2

\* C19. A record created by a request-initiated event and then updated by a
\* response-received and a loading-finished event ends with completed = true and with
\* status and duration populated, under the request id, URL and method of its creation.
C19_RoundTrip ==
    \A id \in EventIds :
        stage[id].phase = "finished"
        => /\ id \in DOMAIN requests
           /\ requests[id].completed
           /\ requests[id].status # -1
           /\ requests[id].duration # -1
           /\ requests[id].requestId = id
           /\ requests[id].url = stage[id].url
           /\ requests[id].method = stage[id].method

\* two records went through the three events, created with different URLs and methods
C19_Witness ==
    \E id, other \in EventIds :
        /\ stage[id].phase = "finished"
        /\ stage[other].phase = "finished"
        /\ stage[id].url # stage[other].url

\* C20. Call ids are strictly increasing and never repeat: a call entering the pending
\* table has the id the counter held, the counter moves past it, no pending call is
\* overwritten, and every pending id is below the counter, whichever session issues.
C20_CallIdsIncrease ==
    [][/\ messageId' >= messageId
       /\ \A id \in (DOMAIN pendingExecutions') \ (DOMAIN pendingExecutions) :
              id >= messageId /\ id < messageId'
       /\ \A id \in (DOMAIN pendingExecutions) \cap (DOMAIN pendingExecutions') :
              pendingExecutions'[id] = pendingExecutions[id]
       /\ \A id \in DOMAIN pendingExecutions' : id < messageId']_vars

\* both sessions have pending calls at once, one of them two
C20_Witness ==
    /\ PendingOf("A") # {}
    /\ PendingOf("B") # {}
    /\ \E a \in Apps : Cardinality(PendingOf(a)) >= 2


\* C21. Inbound frames are handled one at a time in arrival order: the console entries
\* handled so far followed by those still queued are the entries in the order the socket
\* delivered them, the log buffer holds the newest handled entries in that order, and a
\* queued frame is handled even when calls stay pending forever.
C21_FramesInArrivalOrder ==
    /\ [](/\ appended \o EntriesOf(inbox[FrameApp]) = arrived
          /\ logs = SubSeq(arrived, Len(appended) - Len(logs) + 1, Len(appended)))
    /\ ((inbox[FrameApp] # <<>>) ~> (inbox[FrameApp] = <<>>))

\* three console events were handled in arrival order, the oldest is evicted, while a
\* call is still pending
C21_Witness ==
    /\ Len(appended) = 3
    /\ appended[2] # appended[3]
    /\ logs = <<appended[2], appended[3]>>
    /\ PendingOf(FrameApp) # {}
    /\ inbox[FrameApp] = <<>>


\* the enable calls pending on the session of instance a
EnablesOf(a) == { id \in PendingOf(a) : pendingExecutions[id].kind = "enable" }

\* C22. Attach enables the domains by sequential calls before telemetry is active: one
\* enable call is pending at a time, the instance is in the registry and its events are
\* handled only when every domain is enabled, and an enable call that fails aborts the
\* attach: the socket is closed and the instance is not in the registry.
C22_FailedEnableAbortsAttach ==
    /\ [](\A a \in Apps :
             /\ Cardinality(EnablesOf(a)) <= 1
             /\ a \in connectedApps => attachStep[a] = NumDomains)
    /\ [][\A a \in Apps :
             /\ (LogEvent(a) \/ NetEvent(a)) => attachStep[a] = NumDomains
             /\ \A id \in EnablesOf(a) :
                    (id \in lastDone'.ids /\ id \notin DOMAIN pendingExecutions'
                     /\ lastDone'.cause # "value")
                    => /\ wsState'[a] \in {"CLOSING", "CLOSED"}
                       /\ a \notin connectedApps'
                       /\ attachStep'[a] = 0]_vars

\* an enable call of an attach was answered with an error while the other
\* instance is attached: the socket is closing and the instance is not in the registry
C22_Witness ==
    \E a \in Apps :
        /\ lastDone.kind = "enable"
        /\ lastDone.cause = "protocol error"
        /\ wsState[a] = "CLOSING"
        /\ a \notin connectedApps
        /\ attachStep[a] = 0
        /\ connectedApps # {}


\* positions of the descriptors of a list that have / do not have an indication
PositionsWith(devs, tag) == { i \in 1..Len(devs) : tag \in devs[i].tags }

PositionsWithout(devs, tag) == { i \in 1..Len(devs) : tag \notin devs[i].tags }

\* the least element of a non-empty set of positions
Least(S) == CHOOSE i \in S : \A j \in S : i <= j

\* the indications of a list, position by position
TagsOf(devs) == [i \in 1..Len(devs) |-> devs[i].tags]

\* C23. The selector returns the first match of the priority order bridgeless, Hermes,
\* any non-experimental instance, the earliest of its tier: the Bridgeless entry for
\* [Hermes, Bridgeless, Experimental], none for [Experimental] and for [], and never
\* an entry that is not in the list.
C23_SelectsByPriority ==
    selected.ran =>
        LET d == selected.device
            B == PositionsWith(devices, "bridgeless")
            H == PositionsWith(devices, "hermes")
            N == PositionsWithout(devices, "experimental")
        IN  /\ d = NoDevice \/ \E i \in 1..Len(devices) : devices[i] = d
            /\ B # {} => d = devices[Least(B)]
            /\ (B = {} /\ H # {}) => d = devices[Least(H)]
            /\ (B = {} /\ H = {} /\ N # {}) => d = devices[Least(N)]
            /\ (B = {} /\ H = {} /\ N = {}) => d = NoDevice
            /\ TagsOf(devices) = <<{"hermes"}, {"bridgeless"}, {"experimental"}>> => d.id = 2
            /\ TagsOf(devices) = <<{"experimental"}>> => d = NoDevice
            /\ devices = <<>> => d = NoDevice

\* the selector ran on [Hermes, Bridgeless, Experimental] and returned the second entry
C23_Witness ==
    /\ selected.ran
    /\ TagsOf(devices) = <<{"hermes"}, {"bridgeless"}, {"experimental"}>>
    /\ selected.device = devices[2]


\* the number of values on the levels 0..d of a tree with at most MaxProps children
RECURSIVE LevelsUpTo(_)
LevelsUpTo(d) == IF d < 0 THEN 0 ELSE 1 + MaxProps * LevelsUpTo(d - 1)

\* C24. Rendering a remote object terminates whatever the object graph, cyclic ones
\* included: no value deeper than the maximum depth is fetched, the property-fetch
\* calls and the length of the text are bounded by the size of a tree of that depth,
\* and a started rendering finishes.
C24_RenderingIsBounded ==
    /\ [](/\ \A i \in 1..Len(render.todo) : render.todo[i].depth <= render.maxDepth
          /\ render.fetches <= LevelsUpTo(render.maxDepth - 1)
          /\ Len(render.out) + Len(render.todo) <= LevelsUpTo(render.maxDepth))
    /\ ((render.todo # <<>>) ~> (render.todo = <<>>))

\* an object whose only property is itself was rendered with maximum depth 2: two
\* property-fetch calls, then the placeholder
C24_Witness ==
    /\ remote["o1"] = <<"o1">>
    /\ render.maxDepth = 2
    /\ render.todo = <<>>
    /\ render.fetches = 2
    /\ render.out = <<"{", "{", "[Object]">>


\* the ports a response has lines for
PortsReported(response) == { response.lines[i].port : i \in 1..Len(response.lines) }

\* C25. Discovery never fails outright: the response of scan_metro is never an error,
\* it reports exactly the ports that pass the probe, a port with a malformed or empty
\* metadata response is reported with zero descriptors, and with no reachable port the
\* response is the normal "no servers found" result.
C25_DiscoveryNeverFails ==
    scanResponse.ran =>
        /\ ~scanResponse.isError
        /\ scanResponse.found <=> (\E p \in DOMAIN portState : portState[p] # Closed)
        /\ scanResponse.found =>
               /\ PortsReported(scanResponse) = { p \in DOMAIN portState : portState[p] # Closed }
               /\ \A i \in 1..Len(scanResponse.lines) :
                      LET line == scanResponse.lines[i] IN
                      /\ portState[line.port] \in {Malformed, Empty} => line.count = 0
                      /\ portState[line.port].body = "array"
                            => line.count = Len(portState[line.port].list)
        /\ ~scanResponse.found => scanResponse = NoServersResponse

\* a scan with one port closed and one answering with a malformed response
C25_Witness ==
    /\ portState[8081] = Closed
    /\ portState[8082] = Malformed
    /\ scanResponse.found
    /\ Len(scanResponse.lines) = 1
    /\ scanResponse.lines[1].count = 0


\* the ids of the stored records whose completed flag is true
CompletedIds == { id \in DOMAIN requests : requests[id].completed }

\* C26. The statistics count the completed requests and average over them: the
\* completed count is the number of stored records whose completed flag is true, and
\* the average is the sum of their durations divided by that count, a duration of 0
\* included.
C26_AverageOverCompleted ==
    [][GetStatsCall
       => /\ lastStats'.completedCount = Cardinality(CompletedIds)
          /\ CompletedIds # {}
                => lastStats'.avg = RoundDiv(SumDurations(requests, CompletedIds),
                                            Cardinality(CompletedIds))]_vars


\* C27. Queries are read-only: a get, search, getAll or size on either buffer leaves
\* the stored entries, their order and the eviction order as they are, and a step that
\* changes a buffer is an add, a set or a clear.
C27_QueriesAreReadOnly ==
    [][/\ (LogQueryStep \/ NetQueryStep) => UNCHANGED <<logs, logMaxSize, requests, order, netMaxSize>>
       /\ logs' # logs => (LogClear \/ \E entry \in FrameEntries : LogAddCall(entry))
       /\ (requests' # requests \/ order' # order)
          => (NetClear \/ \E id \in {"", "r1"} : \E request \in SetArgs(id) : NetSetCall(id, request))
      ]_vars

\* both buffers hold entries, and a get on the log buffer and a getAll on the network
\* table returned them
C27_Witness ==
    /\ Len(logs) = 2
    /\ lastGet.called
    /\ lastGet.result = logs
    /\ requests # <<>>
    /\ lastQuery.op = "network.getAll"
    /\ Len(lastQuery.list) = NetSize


\* C28. Every list returned by a LogBuffer query, whatever the arguments, is a
\* snapshot: a later add or clear does not change the contents of a list already
\* returned.
C28_ResultsAreSnapshots == held.now = held.returned


\* C29. After any sequence of set and clear calls, for every request id (the empty
\* string included) and every capacity (0 included), the insertion-order list holds
\* exactly the ids stored in the table, each once: its length equals size and a
\* record is retrievable by get iff its id is in the order list.
C29_OrderListsStoredIds ==
    /\ Len(order) = NetSize
    /\ \A i, j \in 1..Len(order) : order[i] = order[j] => i = j
    /\ \A id \in ReqIds :
           NetGet(requests, id) # Undefined <=> \E i \in 1..Len(order) : order[i] = id


\* the positions of the start-sliced list whose entry has the level asked for
LevelPositions ==
    { i \in 1..Len(AfterStart(logs, lastGet.text)) :
        AfterStart(logs, lastGet.text)[i].level = lastGet.level }

\* r takes its entries from s at increasing positions
InOrderOf(r, s) ==
    \E f \in [1..Len(r) -> 1..Len(s)] :
        /\ \A k \in 1..Len(r) : r[k] = s[f[k]]
        /\ \A k \in 1..Len(r) : \A l \in 1..Len(r) : k < l => f[k] < f[l]

\* C30. get applies startFromText, then level, then count: with a level other than
\* "all" the result holds only entries of that level, in buffer order, taken from the
\* start-sliced list, and the count caps the level-filtered list, so that up to count
\* matching entries are returned even when other entries lie between them.
C30_LevelThenCount ==
    (lastGet.called /\ lastGet.level \in Levels)
        => /\ \A k \in 1..Len(lastGet.result) : lastGet.result[k].level = lastGet.level
           /\ InOrderOf(lastGet.result, AfterStart(logs, lastGet.text))
           /\ Len(lastGet.result) =
                  IF lastGet.count > 0 /\ lastGet.count < Cardinality(LevelPositions)
                  THEN lastGet.count
                  ELSE Cardinality(LevelPositions)

\* two entries of the level with another entry between them, and a get with that
\* level and count 2 returned both
C30_Witness ==
    /\ lastGet.called
    /\ lastGet.level = "log"
    /\ lastGet.count = 2
    /\ lastGet.text = <<>>
    /\ Len(logs) = 3
    /\ logs[1].level = "log" /\ logs[2].level = "error" /\ logs[3].level = "log"
    /\ lastGet.result = <<logs[1], logs[3]>>


\* the record passes every filter of the latest listing that was given
Passes(r) ==
    /\ lastQuery.options.method \in { "get", "GET" } => r.method = "GET"
    /\ lastQuery.options.method \in { "post", "POST" } => r.method = "POST"
    /\ lastQuery.options.urlPattern = "U1" => r.url = "u1"
    /\ lastQuery.options.urlPattern = "2" => r.url = "u2"
    /\ lastQuery.options.status # -1 => r.status = lastQuery.options.status
    /\ lastQuery.options.completedOnly => r.completed

\* the stored records that pass the filters of the latest listing
PassingRecords == { r \in { requests[id] : id \in DOMAIN requests } : Passes(r) }

\* the records of the latest listing
Listed == { lastQuery.list[i] : i \in 1..Len(lastQuery.list) }

\* C31. getAll returns the records passing every given filter sorted by ascending
\* timestamp, and with count N > 0 the N records with the latest timestamps among
\* them; search does the same for a URL pattern and maxResults.
C31_FilteredSortedLatest ==
    lastQuery.op \in { "network.getAll", "network.search" }
        => /\ Listed \subseteq PassingRecords
           /\ \A i, j \in 1..Len(lastQuery.list) :
                  i < j => /\ lastQuery.list[i].timestamp <= lastQuery.list[j].timestamp
                           /\ lastQuery.list[i] # lastQuery.list[j]
           /\ Len(lastQuery.list) =
                  IF lastQuery.options.count > 0
                     /\ lastQuery.options.count < Cardinality(PassingRecords)
                  THEN lastQuery.options.count
                  ELSE Cardinality(PassingRecords)
           /\ \A r \in PassingRecords \ Listed : \A l \in Listed : r.timestamp <= l.timestamp

\* three stored records of which the first inserted is the latest; a listing by
\* method with count 1 left out an earlier record of that method and returned the latest
C31_Witness ==
    /\ lastQuery.op = "network.getAll"
    /\ lastQuery.options.method = "get"
    /\ lastQuery.options.count = 1
    /\ requests["r1"].timestamp = 2
    /\ requests["r2"].timestamp = 1
    /\ requests["r1"].method = "GET"
    /\ requests["r2"].method = "GET"
    /\ requests["r3"].method = "POST"
    /\ lastQuery.list = <<requests["r1"]>>


\* C32. clear on either buffer returns the number of entries held before the call and
\* leaves the buffer empty; on the network table it also empties the eviction order,
\* so that the table again accepts capacity-many new ids before it evicts anything
\* and never evicts on behalf of an id inserted before the clear.
C32_ClearStartsOver ==
    /\ [](\A i \in 1..Len(order) : order[i] \in DOMAIN requests)
    /\ [][/\ ClearLogs => (lastQuery'.size = Len(logs) /\ logs' = <<>>)
          /\ ClearNetwork => /\ lastQuery'.size = NetSize
                             /\ requests' = <<>>
                             /\ order' = <<>>
          /\ \A id \in EventIds : \A request \in SetArgs(id) :
                 (NetSetCall(id, request) /\ Len(order) < netMaxSize)
                     => DOMAIN requests' = DOMAIN requests \cup {id}
         ]_vars

\* a table of capacity 2 was full when clear_network reported 2 cleared requests, and
\* holds two new ids since
C32_Witness ==
    /\ lastQuery.op = "clear_network"
    /\ lastQuery.size = 2
    /\ netMaxSize = 2
    /\ order = <<"r1", "r2">>
    /\ DOMAIN requests = {"r1", "r2"}


\* C33. The lookup of a request id that was never inserted, has been evicted or was
\* removed by clear returns no record, and get_request_details answers with a
\* 'Request not found' error response; it answers with the details of a stored record.
C33_MissingIdIsNotFound ==
    [][\A id \in ReqIds :
          GetRequestDetails(id)
              => IF fate[id] \in { "never", "evicted", "cleared" }
                 THEN /\ lastQuery'.list = <<>>
                      /\ lastQuery'.response = [isError |-> TRUE, text |-> "Request not found"]
                 ELSE /\ lastQuery'.list = <<requests[id]>>
                      /\ ~lastQuery'.response.isError
      ]_vars

\* r1 was stored and evicted by a later insertion, r2 was stored and cleared, r3 never
\* stored; the lookup of the evicted id was answered with the error response
C33_Witness ==
    /\ fate["r1"] = "evicted"
    /\ fate["r2"] = "cleared"
    /\ fate["r3"] = "never"
    /\ lastQuery.op = "get_request_details"
    /\ lastQuery.requestId = "r1"
    /\ lastQuery.response.isError
    /\ lastQuery.list = <<>>


\* the descriptors behind the port of a result line
DevicesAt(line) == FetchDevicesOf(portState[line.port])

\* C34. scan_metro processes the reachable ports one after another and attaches to at
\* most one instance per port, the selected main instance; a port with no descriptors
\* or no selectable instance is reported and skipped without error, and a failed
\* attach is recorded as a failure line and does not keep the remaining ports from
\* being processed.
C34_OneAttachPerPort ==
    (scanResponse.ran /\ scanResponse.found) =>
        /\ ~scanResponse.isError
        /\ PortsReported(scanResponse) = { p \in DOMAIN portState : portState[p].reachable }
        /\ \A i, j \in 1..Len(scanResponse.lines) :
               i < j => scanResponse.lines[i].port < scanResponse.lines[j].port
        /\ \A i \in 1..Len(scanResponse.lines) :
               LET line == scanResponse.lines[i] IN
               /\ Len(line.attached) <= 1
               /\ line.attached # <<>>
                     => /\ \E k \in 1..Len(DevicesAt(line)) : DevicesAt(line)[k] = line.attached[1]
                        /\ line.attached[1] = SelectMainDevice(DevicesAt(line))
                        /\ line.connection \in { "result", "Failed" }
               /\ (DevicesAt(line) = <<>> \/ SelectMainDevice(DevicesAt(line)) = NoDevice)
                     => (line.attached = <<>> /\ line.connection = "none")

\* both ports serve descriptors; the attach on the first port failed and the second
\* port was attached to all the same
C34_Witness ==
    /\ scanResponse.ran
    /\ Len(scanResponse.lines) = 2
    /\ scanResponse.lines[1].connection = "Failed"
    /\ scanResponse.lines[2].connection = "result"
    /\ scanResponse.lines[2].count = 2
    /\ Len(scanResponse.lines[2].attached) = 1


\* the latest port a finished start returned (0: no start succeeded)
RECURSIVE LastStarted(_)
LastStarted(results) ==
    IF results = <<>> THEN 0
    ELSE IF results[Len(results)] # 0 THEN results[Len(results)]
    ELSE LastStarted(SubSeq(results, 1, Len(results) - 1))

\* C35. startDebugHttpServer tries the ports startPort .. startPort+19 in ascending
\* order and returns the first on which listen succeeds, recording it as the active
\* port; after 20 failed attempts it returns null and records nothing: the active port
\* is the port of the latest successful start, null as long as none succeeded.
C35_AscendingFirstFree ==
    /\ Len(httpStart.tried) <= 20
    /\ \A i \in 1..Len(httpStart.tried) :
           /\ httpStart.tried[i].port = httpStart.startPort + (i - 1)
           /\ i < Len(httpStart.tried) => ~httpStart.tried[i].listened
    /\ httpStart.phase = "running" =>
           /\ httpStart.result = 0
           /\ \A i \in 1..Len(httpStart.tried) : ~httpStart.tried[i].listened
    /\ (httpStart.phase = "done" /\ httpStart.result # 0) =>
           /\ httpStart.tried # <<>>
           /\ httpStart.tried[Len(httpStart.tried)] =
                  [port |-> httpStart.result, listened |-> TRUE]
           /\ activeDebugServerPort = httpStart.result
    /\ (httpStart.phase = "done" /\ httpStart.result = 0) =>
           /\ Len(httpStart.tried) = 20
           /\ \A i \in 1..20 : ~httpStart.tried[i].listened
    /\ activeDebugServerPort = LastStarted(startResults)

\* a start found all twenty ports taken and returned null; a later start from the
\* default port found it taken and the next one free
C35_Witness ==
    /\ startResults = <<0, 3457>>
    /\ httpStart.startPort = 3456
    /\ Len(httpStart.tried) = 2
    /\ activeDebugServerPort = 3457


\* C36. Initialization of the OCR engine is single-flight: overlapping getEasyOCR calls
\* start at most one initialization, so at no time are two initializations pending.
C36_SingleFlight == Cardinality(Running) <= 1

====
